---- MODULE Spec2Model ----
(***************************************************************************)
(* Model of the nestanak-info monitor: the per-URL check loops             *)
(* (monitor.go), the notification gate (canSendAlert / recordAlert), the   *)
(* content-hash dedup and the persistent ServiceState (state file).        *)
(*                                                                         *)
(* Time is a discrete clock `now` counted in ticks.  The durations of the  *)
(* source (time.Hour, 24*time.Hour, 7*24*time.Hour, the configured         *)
(* cooldown) are scaled to a few ticks each; only their order matters to   *)
(* the comparisons the code makes.                                         *)
(***************************************************************************)
EXTENDS Integers, Sequences, FiniteSets, TLC

\* ---------------------------------------------------------------- bounds
MaxTime == 5
MaxRestarts == 1
\* the largest check_interval_seconds and the most URLs configured
MaxSeconds == 12
MaxTargets == 3
\* the largest capacity of a CircularBuffer (and of an AsyncLogger's buffer) and
\* the most items added to either
MaxCapacity == 3
MaxAdds == 5

\* ------------------------------------------------------------- constants
\* durations, in ticks
OneHour == 2
OneDay == 3
SevenDays == 4
\* Config values (config.go)
AlertCooldownMinutes == 1
EmailRateLimitPerHour == 1
MaxErrorEmailsPerDay == 3

\* time.Second, in units of time.Duration, and the width of a Duration
\* (int64), scaled: 8 * Second overflows
Second == 4
DurationBits == 6
\* the smallest check_interval_seconds ValidateConfig accepts
MinCheckIntervalSeconds == 5
\* DNSCache.ttl, config.DNSCacheTTLMinutes minutes in the source
DNSCacheTTL == 2
\* the capacity of AsyncLogger.logChan (1000 in the source)
LogChanCapacity == 2

URLConfigs == {"u1", "u2"}
\* what the extractors return for a page on which the terms were found:
\* one value stands for one (Date, Time, Address) triple
Extracted == {"a", "b"}
NoFields == "-"

VARIABLES
    config,                     \* Monitor.config: the loaded Config (here max_emails_per_url_per_day)
    now,                        \* wall clock (time.Now())
    run,                        \* number of process starts after the first
    pc,                         \* per URL: position of its monitorURL loop
    result,                     \* per URL: URLCheckResult of the poll in flight
    foundURLs,                  \* Monitor.foundURLs
    unreachableURLs,            \* Monitor.unreachableURLs
    lastURLDownTime,            \* Monitor.lastURLDownTime
    lastAlertTime,              \* Monitor.lastAlertTime
    emailsSentThisHour,         \* Monitor.emailsSentThisHour
    emailsSentPerURLToday,      \* Monitor.emailsSentPerURLToday (same map as state.EmailsSentPerURLToday)
    errorEmailsSentPerURLToday, \* Monitor.errorEmailsSentPerURLToday (same map as state.ErrorEmailsSentPerURLToday)
    SeenMatches,                \* ServiceState.SeenMatches
    stateFile,                  \* content of the file at state_file_path
    tempFile,                   \* content of the file at state_file_path + ".tmp"
    corruptedFiles,             \* the files state_file_path + ".corrupted." + timestamp: their timestamps
    saver,                      \* the SaveState call in progress (holder of ServiceState.mu)
    delivered,                  \* history: notifications the Notifier accepted in this run, in the last 24 hours
    lastDelivered,              \* history: per match hash of the last 7 days, when (and in which run) the Notifier last accepted one
    previous,                   \* history: per URL, the Fields of its latest successful poll in this run and the
                                \*   notifications accepted since polls began to return these Fields
    emitted,                    \* what the latest step of a check loop gave out: the EventRecord added to
                                \*   recentEvents, and whether it started a goroutine with `go m.saveState()`
    outage,                     \* history: per URL, its latest run of consecutive failed polls in this run
                                \*   and the error / recovery e-mails handed to the Notifier for it
    schedule,                   \* Config.CheckIntervalSeconds and len(Config.URLConfigs)
    staggerDelay,               \* per index of a started monitorURL goroutine: its staggerDelay
    stopChan,                   \* Monitor.stopChan has been closed
    loop,                       \* per index: where its monitorURL goroutine is, whether it has polled,
                                \*   the ticks waiting in ticker.C and the calls of checkSingleURL in flight
    maintenance,                \* where the goroutine of the maintenance tasks is
    start,                      \* where Start is
    shutdown,                   \* where Shutdown is, and (history) the records held when its save began
    locks,                      \* per goroutine: the lock and I/O events its call has still to make, the locks it holds
    recentEvents,               \* Monitor.recentEvents, a CircularBuffer, and (history) the items added to it
    asyncLogger,                \* Monitor.asyncLogger: logChan, buffer, its run goroutine
    dnsCache                    \* Monitor.dnsCache: entries, the Resolve and CleanupExpired calls in progress

\* the variables of the check loops, the gate and the state store
monitorVars == <<config, now, run, pc, result, foundURLs, unreachableURLs, lastURLDownTime,
                 lastAlertTime, emailsSentThisHour, emailsSentPerURLToday,
                 errorEmailsSentPerURLToday, SeenMatches, stateFile, tempFile, corruptedFiles,
                 saver, delivered, lastDelivered, previous, outage, emitted>>
\* the variables of the parts that are modelled on their own
utilVars == <<schedule, staggerDelay, stopChan, loop, maintenance, start, shutdown>>

\* the variables of the shared structures that are modelled on their own
partVars == <<locks, recentEvents, asyncLogger, dnsCache>>

vars == <<monitorVars, utilVars, partVars>>

MaxEmailsPerURLPerDay == config.MaxEmailsPerURLPerDay

\* ------------------------------------------------------------ Go maps
EmptyMap == [k \in {} |-> 0]
Put(m, k, v) == [x \in (DOMAIN m) \cup {k} |-> IF x = k THEN v ELSE m[x]]
\* seeded fault (tests C36): the delete is left out
Delete_kept(m, k) == m
Delete(m, k) == [x \in (DOMAIN m) \ {k} |-> m[x]]
Has(m, k) == k \in DOMAIN m
\* m[k] of a map of slices: the nil slice when the key is missing
Slice(m, k) == IF k \in DOMAIN m THEN m[k] ELSE <<>>

\* ------------------------------------------------- URLCheckResult values
\* The URLCheckResult of a poll (Error, Found, Date/Time/Address as Fields)
\* together with the locals of handleCheckResult: wasFound, alreadySeen, the
\* answer of canSendAlert (which return statement it left by) and whether
\* the Notifier accepted the message for at least one recipient.
NoResult == [Error |-> FALSE, Found |-> FALSE, Fields |-> NoFields,
             wasFound |-> FALSE, alreadySeen |-> FALSE, Gate |-> "-", Accepted |-> FALSE,
             duration |-> 0]
Fetched(error, found, fields) ==
    [NoResult EXCEPT !.Error = error, !.Found = found, !.Fields = fields]
\* checkURL returns an error (fetch failed), or Found = FALSE, or Found = TRUE
\* with the extracted Date/Time/Address
CheckResults ==
    {Fetched(TRUE, FALSE, NoFields), Fetched(FALSE, FALSE, NoFields)}
    \cup {Fetched(FALSE, TRUE, f) : f \in Extracted}

ErrorRecipient == "ops"

\* --------------------------------------------------- ServiceState (pure)
\* sha256 over "url|date|time|address": one hash per distinct input
GenerateMatchHash(url, fields) == <<url, fields>>

\* seeded fault (tests C12): Before in place of After
ValidTimes_before(times, cutoff) == SelectSeq(times, LAMBDA t : t < cutoff)

\* the loop `if t.After(cutoff) { valid = append(valid, t) }`
ValidTimes(times, cutoff) == SelectSeq(times, LAMBDA t : t > cutoff)

\* seeded fault (tests C13): >= in place of >
IsMatchSeen_strict(seen, hash, maxAge, t) ==
    Has(seen, hash) /\ ~(t - seen[hash].LastNotified >= maxAge)

IsMatchSeen(seen, hash, maxAge, t) ==
    IF ~Has(seen, hash) THEN FALSE
    ELSE IF t - seen[hash].LastNotified > maxAge THEN FALSE
    ELSE TRUE

RecordMatchIn(seen, hash, t) ==
    IF Has(seen, hash)
    THEN [seen EXCEPT ![hash] = [@ EXCEPT !.LastNotified = t, !.Count = @ + 1]]
    ELSE Put(seen, hash, [FirstSeen |-> t, LastNotified |-> t, Count |-> 1])

\* cleanupOldDataUnsafe on a map of timestamp slices: keep t.After(oneDayAgo),
\* delete the key when nothing is left
CleanTimes(m, cutoff) ==
    [k \in {x \in DOMAIN m : ValidTimes(m[x], cutoff) # <<>>} |-> ValidTimes(m[k], cutoff)]

\* seeded fault (tests C5): a record exactly seven days old is deleted too
CleanMatches_notAfter(seen, cutoff) ==
    [h \in {x \in DOMAIN seen : ~(seen[x].LastNotified <= cutoff)} |-> seen[h]]

\* cleanupOldDataUnsafe on SeenMatches: delete when LastNotified.Before(sevenDaysAgo)
CleanMatches(seen, cutoff) ==
    [h \in {x \in DOMAIN seen : ~(seen[x].LastNotified < cutoff)} |-> seen[h]]

\* seeded fault (tests C23): the cleanup stores empty maps
WriteBackCleaned_nothing(cur, read, cutoff) == EmptyMap

\* The cleanup loop of a save stores, for every key it read, the cleaned copy
\* of the slice it read.  The map is the one the gate prunes and appends to
\* under emailMu, while the save holds ServiceState.mu only: what the gate
\* stored in between is overwritten.
WriteBackCleaned(cur, read, cutoff) ==
    [k \in {x \in (DOMAIN cur) \cup (DOMAIN read) :
                x \in DOMAIN read => ValidTimes(read[x], cutoff) # <<>>}
        |-> IF k \in DOMAIN read THEN ValidTimes(read[k], cutoff) ELSE cur[k]]

\* A file: absent, or holding a JSON document of the state (its
\* emails_sent_per_url_today, error_emails_sent_per_url_today and seen_matches
\* members), or holding bytes that json.Unmarshal rejects (corrupt; the
\* members are then what is still readable in it)
NoFile == [exists |-> FALSE, corrupt |-> FALSE,
           emails |-> EmptyMap, errors |-> EmptyMap, seen |-> EmptyMap]
Damaged(file) == [file EXCEPT !.corrupt = TRUE]
\* seeded fault (tests C14): seen_matches is left out of the document
MarshalIndent_withoutMatches(emails, errors, seen) ==
    [exists |-> TRUE, corrupt |-> FALSE,
     emails |-> emails, errors |-> errors, seen |-> EmptyMap]

\* json.MarshalIndent(s): the document of the state
MarshalIndent(emails, errors, seen) ==
    [exists |-> TRUE, corrupt |-> FALSE, emails |-> emails, errors |-> errors, seen |-> seen]
\* os.WriteFile(name, data): the whole document, or a truncated one with an error
WriteFile(data, complete) == IF complete THEN data ELSE Damaged(data)
\* seeded fault (tests C16): the error of os.WriteFile is not looked at
WriteFileError_ignored(file) == FALSE

\* `err != nil` after os.WriteFile
WriteFileError(file) == file.corrupt

\* the save in progress: the time and the maps the cleanup read, and whether
\* the temp file has been written
IdleSaver == [active |-> FALSE, written |-> FALSE, at |-> 0,
              emails |-> EmptyMap, errors |-> EmptyMap]

\* seeded fault (tests C15): what json.Unmarshal filled in before its error
\* is kept
LoadState_keepsPartial(file, t) ==
    IF ~file.exists
    THEN [emails |-> EmptyMap, errors |-> EmptyMap, seen |-> EmptyMap]
    ELSE [emails |-> CleanTimes(file.emails, t - OneDay),
          errors |-> CleanTimes(file.errors, t - OneDay),
          seen |-> CleanMatches(file.seen, t - SevenDays)]

\* LoadState: fresh state when the file is absent or does not parse, else the
\* parsed file after CleanupOldData
LoadState(file, t) ==
    IF ~file.exists \/ file.corrupt
    THEN [emails |-> EmptyMap, errors |-> EmptyMap, seen |-> EmptyMap]
    ELSE [emails |-> CleanTimes(file.emails, t - OneDay),
          errors |-> CleanTimes(file.errors, t - OneDay),
          seen |-> CleanMatches(file.seen, t - SevenDays)]

\* ------------------------------------------------------ gate (pure parts)
AlertKey(url, alertType) == <<url, alertType>>

\* seeded fault (tests C10): the cooldown is never looked at
CooldownActive_never(last, key, t) == FALSE

CooldownActive(last, key, t) ==
    Has(last, key) /\ t - last[key] < AlertCooldownMinutes

\* seeded fault (tests C9): > in place of >=
GlobalLimitReached_offByOne(validEmails) == Len(validEmails) > EmailRateLimitPerHour

GlobalLimitReached(validEmails) == Len(validEmails) >= EmailRateLimitPerHour

\* seeded fault (tests C1): > in place of >=
DailyLimitReached_offByOne(validURLEmails) == Len(validURLEmails) > MaxEmailsPerURLPerDay

DailyLimitReached(validURLEmails) == Len(validURLEmails) >= MaxEmailsPerURLPerDay

\* seeded fault (tests C19): the cap is reached one e-mail late
ErrorLimitReached_offByOne(validErrorEmails) == Len(validErrorEmails) > MaxErrorEmailsPerDay

ErrorLimitReached(validErrorEmails) == Len(validErrorEmails) >= MaxErrorEmailsPerDay

\* ------------------------------------------------------------- history
\* per URL, the run of consecutive failed polls: how many (2 for several),
\* the time of the first, whether a successful poll has ended it and when,
\* how many error e-mails were on record for the last 24 hours when it began,
\* and the e-mails handed to the Notifier for it
NoOutage == [Polls |-> 0, Since |-> 0, Over |-> FALSE, Up |-> 0, Used |-> 0, Sent |-> <<>>]
Notification(url, type) ==
    [URL |-> url, Type |-> type, At |-> now,
     Downtime |-> IF type = "recovery" THEN result[url].duration ELSE 0]
Within(log, age, t) == SelectSeq(log, LAMBDA n : n.At > t - age)
Recent(last, age, t) == [h \in {k \in DOMAIN last : t - last[k].At <= age} |-> last[h]]
\* per URL, the run of consecutive polls that extracted the same fields:
\* whether its first poll met a URL not stored as found (Transition) and how
\* many notifications were dispatched for it (Sent)
NoPrevious == [Fields |-> NoFields, Sent |-> 0, Transition |-> FALSE]

\* loadConfig: the configuration file read at start
loadConfig(perDay) == [MaxEmailsPerURLPerDay |-> perDay, ErrorRecipient |-> ErrorRecipient]

\* an EventRecord (its URL and EventType), and no event
EventRecord(url, type) == [URL |-> url, EventType |-> type]
NoEvent == [URL |-> "", EventType |-> "-"]

\* a step that adds no event and starts no goroutine
Nothing == [event |-> NoEvent, goSaveState |-> FALSE]

\* the state after main has built the first Monitor
\* the parts modelled on their own, when they are not run
StaggerUnused ==
    /\ schedule = [CheckIntervalSeconds |-> MinCheckIntervalSeconds, targets |-> 1]
    /\ staggerDelay = EmptyMap

\* Shutdown has not been called
NoShutdown == [at |-> "-", emails |-> EmptyMap, errors |-> EmptyMap, seen |-> EmptyMap]

\* Start before it has started any goroutine
LoopsUnused ==
    /\ stopChan = FALSE
    /\ loop = EmptyMap
    /\ maintenance = "-"
    /\ start = "-"
    /\ shutdown = NoShutdown

\* the shared structures, when they are not run
PartsUnused ==
    /\ locks = EmptyMap
    /\ recentEvents = EmptyMap
    /\ asyncLogger = EmptyMap
    /\ dnsCache = EmptyMap

UtilsUnused == StaggerUnused /\ LoopsUnused /\ PartsUnused

\* NewMonitor(config) at the start of the process
StartConfigured(cfg) ==
    /\ config = cfg
    /\ now = 0
    /\ run = 0
    /\ pc = [u \in URLConfigs |-> "idle"]
    /\ result = [u \in URLConfigs |-> NoResult]
    /\ foundURLs = {}
    /\ unreachableURLs = {}
    /\ lastURLDownTime = EmptyMap
    /\ lastAlertTime = EmptyMap
    /\ emailsSentThisHour = <<>>
    /\ emailsSentPerURLToday = EmptyMap
    /\ errorEmailsSentPerURLToday = EmptyMap
    /\ SeenMatches = EmptyMap
    /\ stateFile = NoFile
    /\ tempFile = NoFile
    /\ corruptedFiles = {}
    /\ saver = IdleSaver
    /\ delivered = <<>>
    /\ lastDelivered = EmptyMap
    /\ previous = [u \in URLConfigs |-> NoPrevious]
    /\ outage = [u \in URLConfigs |-> NoOutage]
    /\ emitted = Nothing

StartMonitor(perDay) == StartConfigured(loadConfig(perDay))

Start(perDay) == StartMonitor(perDay) /\ UtilsUnused

Init == Start(1)

\* ------------------------------------------------------------- actions
Finish(u, after) ==
    /\ pc' = [pc EXCEPT ![u] = after]
    /\ result' = [result EXCEPT ![u] = IF after = "idle" THEN NoResult
                                       ELSE IF after = "errSend" THEN @
                                       ELSE [@ EXCEPT !.duration = 0]]

\* seeded fault (tests C17): every failed poll counts as the first
WasUnreachable_never(unreachable, u) == FALSE

\* wasUnreachable := m.unreachableURLs[result.URL]
WasUnreachable(unreachable, u) == u \in unreachable

\* time.Since(downTime); a missing map entry reads as the zero time
Since(downTime, t) == t - downTime

\* checkSingleURL: checkURL returns one r of `fetched`; handleCheckResult then
\* runs the m.mu section of handleConnectionFailure (r.Error) or of
\* handleConnectionRecovery
checkSingleURL(u, fetched) ==
    /\ pc[u] = "idle"
    /\ \E r \in fetched :
        LET wasUnreachable == WasUnreachable(unreachableURLs, u)
            downTime == IF Has(lastURLDownTime, u) THEN lastURLDownTime[u] ELSE 0
            o == outage[u]
            down == o.Polls > 0 /\ ~o.Over
            onRecord == Slice(errorEmailsSentPerURLToday, u)
        IN
        /\ result' = [result EXCEPT ![u] =
                         IF r.Error THEN (IF wasUnreachable THEN NoResult ELSE r)
                         ELSE IF wasUnreachable THEN [r EXCEPT !.duration = Since(downTime, now)]
                         ELSE r]
        /\ outage' = [outage EXCEPT ![u] =
                         IF r.Error
                         THEN (IF down THEN [o EXCEPT !.Polls = 2]
                               ELSE [NoOutage EXCEPT
                                        !.Polls = 1, !.Since = now,
                                        !.Used = Cardinality({i \in DOMAIN onRecord :
                                                                 onRecord[i] > now - OneDay})])
                         ELSE IF down THEN [o EXCEPT !.Over = TRUE, !.Up = now]
                         ELSE o]
        /\ IF r.Error
           THEN /\ unreachableURLs' = unreachableURLs \cup {u}
                /\ lastURLDownTime' =
                      IF ~wasUnreachable THEN Put(lastURLDownTime, u, now)
                      ELSE lastURLDownTime
                /\ pc' = [pc EXCEPT ![u] = IF ~wasUnreachable THEN "errGate" ELSE "idle"]
           ELSE /\ unreachableURLs' = unreachableURLs \ {u}
                /\ lastURLDownTime' =
                      IF wasUnreachable THEN Delete(lastURLDownTime, u)
                      ELSE lastURLDownTime
                /\ pc' = [pc EXCEPT ![u] = IF wasUnreachable THEN "errGate" ELSE "found"]
    /\ emitted' = Nothing
    /\ UNCHANGED <<utilVars, partVars, config, tempFile, corruptedFiles, now, run, foundURLs, lastAlertTime, emailsSentThisHour,
                   emailsSentPerURLToday, errorEmailsSentPerURLToday, SeenMatches,
                   stateFile, saver, delivered, lastDelivered, previous>>

\* where handleCheckResult continues after the error / recovery e-mail part:
\* handleConnectionFailure is followed by `return`, handleConnectionRecovery by
\* the found-state part
AfterConnection(u) == IF result[u].Error THEN "idle" ELSE "found"

\* canSendErrorEmail (under emailMu)
canSendErrorEmail(u) ==
    /\ pc[u] = "errGate"
    /\ IF config.ErrorRecipient = ""
       THEN /\ Finish(u, AfterConnection(u))
            /\ UNCHANGED errorEmailsSentPerURLToday
       ELSE IF Has(errorEmailsSentPerURLToday, u)
       THEN LET validErrorEmails == ValidTimes(errorEmailsSentPerURLToday[u], now - OneDay) IN
            /\ errorEmailsSentPerURLToday' = Put(errorEmailsSentPerURLToday, u, validErrorEmails)
            /\ Finish(u, IF ErrorLimitReached(validErrorEmails)
                         THEN AfterConnection(u) ELSE "errSend")
       ELSE /\ Finish(u, "errSend")
            /\ UNCHANGED errorEmailsSentPerURLToday
    /\ emitted' = Nothing
    /\ UNCHANGED <<utilVars, partVars, config, outage, tempFile, corruptedFiles, now, run, foundURLs, unreachableURLs, lastURLDownTime, lastAlertTime,
                   emailsSentThisHour, emailsSentPerURLToday, SeenMatches, stateFile,
                   saver, delivered, lastDelivered, previous>>

\* sendErrorEmail / sendRecoveryEmail: sendBrevoEmail succeeds or fails; the
\* function returns nothing
sendErrorEmail(u) ==
    /\ pc[u] = "errSend"
    /\ \E ok \in BOOLEAN :
        LET n == Notification(u, IF result[u].Error THEN "error" ELSE "recovery") IN
        /\ result' = [result EXCEPT ![u].Accepted = ok]
        /\ delivered' = IF ok THEN Append(delivered, n) ELSE delivered
        /\ outage' = [outage EXCEPT ![u].Sent =
                         Append(@, [Type |-> n.Type, Downtime |-> n.Downtime, Accepted |-> ok])]
    /\ pc' = [pc EXCEPT ![u] = "errRecord"]
    /\ emitted' = Nothing
    /\ UNCHANGED <<utilVars, partVars, config, tempFile, corruptedFiles, now, run, foundURLs, unreachableURLs, lastURLDownTime, lastAlertTime,
                   emailsSentThisHour, emailsSentPerURLToday, errorEmailsSentPerURLToday,
                   SeenMatches, stateFile, saver, lastDelivered, previous>>

\* seeded fault (tests C34): an error e-mail is also entered in the global
\* hourly list of the match notifications
recordErrorEmail_hourly(u) ==
    /\ pc[u] = "errRecord"
    /\ errorEmailsSentPerURLToday' =
          Put(errorEmailsSentPerURLToday, u, Append(Slice(errorEmailsSentPerURLToday, u), now))
    /\ emailsSentThisHour' = Append(emailsSentThisHour, now)
    /\ pc' = [pc EXCEPT ![u] = AfterConnection(u)]
    /\ result' = [result EXCEPT ![u] = IF @.Error THEN NoResult
                                       ELSE [@ EXCEPT !.Accepted = FALSE, !.duration = 0]]
    /\ emitted' = [Nothing EXCEPT !.goSaveState = TRUE]
    /\ UNCHANGED <<utilVars, partVars, config, outage, tempFile, corruptedFiles, now, run, foundURLs, unreachableURLs, lastURLDownTime, lastAlertTime,
                   emailsSentPerURLToday, SeenMatches, stateFile,
                   saver, delivered, lastDelivered, previous>>

\* recordErrorEmail (under emailMu), then `go m.saveState()`
recordErrorEmail(u) ==
    /\ pc[u] = "errRecord"
    /\ errorEmailsSentPerURLToday' =
          Put(errorEmailsSentPerURLToday, u, Append(Slice(errorEmailsSentPerURLToday, u), now))
    /\ pc' = [pc EXCEPT ![u] = AfterConnection(u)]
    /\ result' = [result EXCEPT ![u] = IF @.Error THEN NoResult
                                       ELSE [@ EXCEPT !.Accepted = FALSE, !.duration = 0]]
    /\ emitted' = [Nothing EXCEPT !.goSaveState = TRUE]
    /\ UNCHANGED <<utilVars, partVars, config, outage, tempFile, corruptedFiles, now, run, foundURLs, unreachableURLs, lastURLDownTime, lastAlertTime,
                   emailsSentThisHour, emailsSentPerURLToday, SeenMatches, stateFile,
                   saver, delivered, lastDelivered, previous>>

\* seeded fault (tests C33): an event for every poll that finds a match
EventType_everySighting(wasFound, found) ==
    IF found THEN "found"
    ELSE IF ~found /\ wasFound THEN "not_found"
    ELSE "-"

\* the EventType of the EventRecord handleCheckResult adds for a successful
\* poll: "found" in `if !wasFound` under `if result.Found`, "not_found" in
\* `else if !result.Found && wasFound`, none ("-") in the other branches
EventType(wasFound, found) ==
    IF found THEN (IF ~wasFound THEN "found" ELSE "-")
    ELSE IF ~found /\ wasFound THEN "not_found"
    ELSE "-"

\* seeded fault (tests C2): the stored found-state is not consulted
WasFound_never(found, u) == FALSE

\* wasFound := m.foundURLs[result.URL]
WasFound(found, u) == u \in found

\* handleCheckResult lines 366-377: the m.mu section that reads wasFound and
\* stores result.Found; for a result with Found, GenerateMatchHash and
\* IsMatchSeen (read lock of ServiceState.mu).  Without Found, lines 421-439:
\* `go m.saveState()` when the URL was found before.
updateFoundState(u) ==
    /\ pc[u] = "found"
    /\ LET r == result[u]
           wasFound == WasFound(foundURLs, u)
           matchHash == GenerateMatchHash(u, r.Fields)
       IN
        /\ r.Found => ~saver.active
        /\ foundURLs' = IF r.Found THEN foundURLs \cup {u} ELSE foundURLs \ {u}
        /\ previous' = [previous EXCEPT ![u] =
                            IF r.Fields = @.Fields THEN @
                            ELSE [Fields |-> r.Fields, Sent |-> 0,
                                  Transition |-> r.Found /\ ~wasFound]]
        /\ IF r.Found
           THEN /\ pc' = [pc EXCEPT ![u] = "alert"]
                /\ result' = [result EXCEPT
                                 ![u].wasFound = wasFound,
                                 ![u].alreadySeen = IsMatchSeen(SeenMatches, matchHash, SevenDays, now)]
           ELSE Finish(u, "idle")
    /\ emitted' = LET wasFound == WasFound(foundURLs, u)
                      type == EventType(wasFound, result[u].Found)
                  IN  [Nothing EXCEPT !.event = IF type = "-" THEN NoEvent
                                                ELSE EventRecord(u, type),
                                      !.goSaveState = ~result[u].Found /\ wasFound]
    /\ UNCHANGED <<utilVars, partVars, config, outage, tempFile, corruptedFiles, now, run, unreachableURLs, lastURLDownTime, lastAlertTime,
                   emailsSentThisHour, emailsSentPerURLToday, errorEmailsSentPerURLToday,
                   SeenMatches, stateFile, saver, delivered, lastDelivered>>

\* handleCheckResult lines 379-399: nothing more is done for a URL that was
\* found before or for a match already seen; otherwise
\* canSendAlert(url, "found"): cooldown, then under emailMu the global hourly
\* list (pruned and stored) and the per-URL daily list (pruned and stored)
canSendAlert(u) ==
    /\ pc[u] = "alert"
    /\ LET validEmails == ValidTimes(emailsSentThisHour, now - OneHour)
           validURLEmails == ValidTimes(Slice(emailsSentPerURLToday, u), now - OneDay)
           Return(answer) ==
               /\ pc' = [pc EXCEPT ![u] = "send"]
               /\ result' = [result EXCEPT ![u].Gate = answer]
       IN
        IF result[u].wasFound \/ result[u].alreadySeen
        THEN /\ Finish(u, "idle")
             /\ UNCHANGED <<emailsSentThisHour, emailsSentPerURLToday>>
        ELSE IF CooldownActive(lastAlertTime, AlertKey(u, "found"), now)
        THEN /\ Return("cooldown")
             /\ UNCHANGED <<emailsSentThisHour, emailsSentPerURLToday>>
        ELSE /\ emailsSentThisHour' = validEmails
             /\ IF GlobalLimitReached(validEmails)
                THEN /\ Return("hourly")
                     /\ UNCHANGED emailsSentPerURLToday
                ELSE IF Has(emailsSentPerURLToday, u)
                THEN /\ emailsSentPerURLToday' = Put(emailsSentPerURLToday, u, validURLEmails)
                     /\ Return(IF DailyLimitReached(validURLEmails) THEN "daily" ELSE "allowed")
                ELSE /\ Return("allowed")
                     /\ UNCHANGED emailsSentPerURLToday
    /\ emitted' = Nothing
    /\ UNCHANGED <<utilVars, partVars, config, outage, tempFile, corruptedFiles, now, run, foundURLs, unreachableURLs, lastURLDownTime, lastAlertTime,
                   errorEmailsSentPerURLToday, SeenMatches, stateFile, saver, delivered, lastDelivered, previous>>

\* what sendEmail returns: its last statement is `return nil`, also when
\* sendBrevoEmail failed for every recipient
sendEmailError(accepted) == FALSE

\* handleCheckResult lines 399-403: when canSendAlert said no, nothing is
\* sent; else sendEmail: each recipient's sendBrevoEmail succeeds or fails,
\* `ok` (one of `outcomes`) says whether at least one was accepted
sendEmail(u, outcomes) ==
    /\ pc[u] = "send"
    /\ IF result[u].Gate # "allowed"
       THEN /\ Finish(u, "idle")
            /\ UNCHANGED <<delivered, lastDelivered, previous>>
       ELSE \E ok \in outcomes :
            /\ delivered' = IF ok THEN Append(delivered, Notification(u, "found"))
                            ELSE delivered
            /\ lastDelivered' =
                  IF ok THEN Put(lastDelivered, GenerateMatchHash(u, result[u].Fields),
                                 [At |-> now, Run |-> run])
                  ELSE lastDelivered
            /\ previous' = IF ok THEN [previous EXCEPT ![u].Sent = @ + 1] ELSE previous
            /\ IF sendEmailError(ok)
               THEN Finish(u, "idle")
               ELSE /\ pc' = [pc EXCEPT ![u] = "record"]
                    /\ result' = [result EXCEPT ![u].Accepted = ok]
    /\ emitted' = Nothing
    /\ UNCHANGED <<utilVars, partVars, config, outage, tempFile, corruptedFiles, now, run, foundURLs, unreachableURLs, lastURLDownTime, lastAlertTime,
                   emailsSentThisHour, emailsSentPerURLToday, errorEmailsSentPerURLToday,
                   SeenMatches, stateFile, saver>>

\* recordAlert(url, "found")
recordAlert(u) ==
    /\ pc[u] = "record"
    /\ lastAlertTime' = Put(lastAlertTime, AlertKey(u, "found"), now)
    /\ emailsSentThisHour' = Append(emailsSentThisHour, now)
    /\ emailsSentPerURLToday' =
          Put(emailsSentPerURLToday, u, Append(Slice(emailsSentPerURLToday, u), now))
    /\ pc' = [pc EXCEPT ![u] = "match"]
    /\ emitted' = Nothing
    /\ UNCHANGED <<utilVars, partVars, config, outage, tempFile, corruptedFiles, now, run, result, foundURLs, unreachableURLs, lastURLDownTime,
                   errorEmailsSentPerURLToday, SeenMatches, stateFile, saver, delivered, lastDelivered, previous>>

\* m.state.RecordMatch (write lock of ServiceState.mu), then `go m.saveState()`
RecordMatch(u) ==
    /\ pc[u] = "match"
    /\ ~saver.active
    /\ SeenMatches' = RecordMatchIn(SeenMatches, GenerateMatchHash(u, result[u].Fields), now)
    /\ Finish(u, "idle")
    /\ emitted' = [Nothing EXCEPT !.goSaveState = TRUE]
    /\ UNCHANGED <<utilVars, partVars, config, outage, tempFile, corruptedFiles, now, run, foundURLs, unreachableURLs, lastURLDownTime, lastAlertTime,
                   emailsSentThisHour, emailsSentPerURLToday, errorEmailsSentPerURLToday,
                   stateFile, saver, delivered, lastDelivered, previous>>

\* cleanupOldDataUnsafe reads the time and starts to range over the maps
cleanupOldDataUnsafeBegins ==
    saver' = [active |-> TRUE, written |-> FALSE, at |-> now,
              emails |-> emailsSentPerURLToday,
              errors |-> errorEmailsSentPerURLToday]

\* the rest of SaveState: the stores of the cleanup, then the file
SaveStateReturns ==
    /\ \E ok \in BOOLEAN :
        LET emails == WriteBackCleaned(emailsSentPerURLToday, saver.emails, saver.at - OneDay)
            errors == WriteBackCleaned(errorEmailsSentPerURLToday, saver.errors, saver.at - OneDay)
            seen == CleanMatches(SeenMatches, saver.at - SevenDays)
        IN
        /\ emailsSentPerURLToday' = emails
        /\ errorEmailsSentPerURLToday' = errors
        /\ SeenMatches' = seen
        /\ stateFile' = IF ok THEN MarshalIndent(emails, errors, seen)
                        ELSE stateFile
    /\ saver' = IdleSaver

\* saveState -> ServiceState.SaveState, first half: takes ServiceState.mu and
\* starts cleanupOldDataUnsafe, which ranges over the two timestamp maps.
\* saveState is called by the 5-minute ticker of Start and by the
\* `go m.saveState()` of the handlers: a save can begin at any moment.
SaveStateBegin ==
    /\ ~saver.active
    /\ cleanupOldDataUnsafeBegins
    /\ emitted' = Nothing
    /\ UNCHANGED <<utilVars, partVars, config, outage, tempFile, corruptedFiles, now, run, pc, result, foundURLs, unreachableURLs, lastURLDownTime,
                   lastAlertTime, emailsSentThisHour, emailsSentPerURLToday,
                   errorEmailsSentPerURLToday, SeenMatches, stateFile, delivered,
                   lastDelivered, previous>>

\* SaveState, second half: the cleanup stores the cleaned slices, deletes old
\* SeenMatches, the state is marshalled, written to the temp file and renamed
\* onto the state file (ok), or writing fails and the file stays (~ok)
SaveStateEnd ==
    /\ saver.active /\ ~saver.written
    /\ shutdown.at # "SaveState"
    /\ SaveStateReturns
    /\ emitted' = Nothing
    /\ UNCHANGED <<utilVars, partVars, config, outage, tempFile, corruptedFiles, now, run, pc, result, foundURLs, unreachableURLs, lastURLDownTime,
                   lastAlertTime, emailsSentThisHour, delivered,
                   lastDelivered, previous>>

\* SaveState step by step, for the claims about the files.  First the
\* cleanup's stores, json.MarshalIndent and os.WriteFile(tempFile): the whole
\* document is written, or os.WriteFile fails leaving a truncated temp file
\* and SaveState returns the error
SaveStateWrite ==
    /\ saver.active /\ ~saver.written
    /\ \E complete \in BOOLEAN :
        LET emails == WriteBackCleaned(emailsSentPerURLToday, saver.emails, saver.at - OneDay)
            errors == WriteBackCleaned(errorEmailsSentPerURLToday, saver.errors, saver.at - OneDay)
            seen == CleanMatches(SeenMatches, saver.at - SevenDays)
            written == WriteFile(MarshalIndent(emails, errors, seen), complete)
        IN
        /\ emailsSentPerURLToday' = emails
        /\ errorEmailsSentPerURLToday' = errors
        /\ SeenMatches' = seen
        /\ tempFile' = written
        /\ saver' = IF WriteFileError(written) THEN IdleSaver
                    ELSE [saver EXCEPT !.written = TRUE]
    /\ emitted' = Nothing
    /\ UNCHANGED <<utilVars, partVars, config, outage, stateFile, corruptedFiles, now, run, pc, result, foundURLs,
                   unreachableURLs, lastURLDownTime, lastAlertTime, emailsSentThisHour,
                   delivered, lastDelivered, previous>>

\* then os.Rename(tempFile, filePath): the temp file replaces the state file,
\* or the rename fails, the temp file is removed and SaveState returns the error
SaveStateRename ==
    /\ saver.active /\ saver.written
    /\ \E ok \in BOOLEAN :
        stateFile' = IF ok THEN tempFile ELSE stateFile
    /\ tempFile' = NoFile
    /\ saver' = IdleSaver
    /\ emitted' = Nothing
    /\ UNCHANGED <<utilVars, partVars, config, outage, corruptedFiles, now, run, pc, result, foundURLs,
                   unreachableURLs, lastURLDownTime, lastAlertTime, emailsSentThisHour,
                   emailsSentPerURLToday, errorEmailsSentPerURLToday, SeenMatches,
                   delivered, lastDelivered, previous>>

\* Something outside the service damages the state file (a disk error, an
\* edit by hand): json.Unmarshal will reject it
CorruptFile ==
    /\ stateFile.exists /\ ~stateFile.corrupt
    /\ stateFile' = Damaged(stateFile)
    /\ emitted' = Nothing
    /\ UNCHANGED <<utilVars, partVars, config, outage, tempFile, corruptedFiles, now, run, pc, result, foundURLs,
                   unreachableURLs, lastURLDownTime, lastAlertTime, emailsSentThisHour,
                   emailsSentPerURLToday, errorEmailsSentPerURLToday, SeenMatches,
                   saver, delivered, lastDelivered, previous>>

\* A panic in the goroutine of monitorURL(u), anywhere inside a poll.  No
\* function on its stack defers a recover (monitorURL defers wg.Done only,
\* and polls are not submitted to the WorkerPool), so the Go runtime prints
\* the panic and exits the process: every goroutine ends where it is.
panic(u) ==
    /\ pc[u] \notin {"idle", "exited"}
    /\ pc' = [v \in URLConfigs |-> "exited"]
    /\ result' = [v \in URLConfigs |-> NoResult]
    /\ saver' = IdleSaver
    /\ emitted' = Nothing
    /\ UNCHANGED <<utilVars, partVars, config, outage, stateFile, tempFile, corruptedFiles, now, run, foundURLs,
                   unreachableURLs, lastURLDownTime, lastAlertTime, emailsSentThisHour,
                   emailsSentPerURLToday, errorEmailsSentPerURLToday, SeenMatches,
                   delivered, lastDelivered, previous>>

\* The process dies at any point (kill, power loss, runtime fatal error) and is
\* started again: NewMonitor builds a new Monitor around LoadState(file).
\* LoadState renames a file that does not parse to a .corrupted.<timestamp>
\* backup (the result of os.Rename is only logged).
NewMonitor ==
    /\ run < MaxRestarts
    /\ run' = run + 1
    /\ LET state == LoadState(stateFile, now) IN
        /\ emailsSentPerURLToday' = state.emails
        /\ errorEmailsSentPerURLToday' = state.errors
        /\ SeenMatches' = state.seen
    /\ pc' = [u \in URLConfigs |-> "idle"]
    /\ result' = [u \in URLConfigs |-> NoResult]
    /\ foundURLs' = {}
    /\ unreachableURLs' = {}
    /\ lastURLDownTime' = EmptyMap
    /\ lastAlertTime' = EmptyMap
    /\ emailsSentThisHour' = <<>>
    /\ saver' = IdleSaver
    /\ previous' = [u \in URLConfigs |-> NoPrevious]
    /\ outage' = [u \in URLConfigs |-> NoOutage]
    /\ delivered' = <<>>
    /\ IF stateFile.exists /\ stateFile.corrupt
       THEN \E ok \in BOOLEAN :
               /\ stateFile' = IF ok THEN NoFile ELSE stateFile
               /\ corruptedFiles' = IF ok THEN corruptedFiles \cup {now} ELSE corruptedFiles
       ELSE UNCHANGED <<stateFile, corruptedFiles>>
    /\ emitted' = Nothing
    /\ UNCHANGED <<utilVars, partVars, config, tempFile, now, lastDelivered>>

\* Time passes.  A tick is much longer than the in-memory steps of a poll
\* and than a save: the clock advances between polls and while a poll waits
\* for the Notifier (between sendEmail's requests and recordAlert).
Tick ==
    /\ now < MaxTime
    /\ \A u \in URLConfigs : pc[u] \in {"idle", "record", "returned"}
    /\ ~saver.active
    /\ now' = now + 1
    /\ delivered' = Within(delivered, OneDay, now + 1)
    /\ lastDelivered' = Recent(lastDelivered, SevenDays, now + 1)
    /\ emitted' = Nothing
    /\ UNCHANGED <<utilVars, partVars, config, outage, tempFile, corruptedFiles, run, pc, result, foundURLs, unreachableURLs, lastURLDownTime,
                   lastAlertTime, emailsSentThisHour, emailsSentPerURLToday,
                   errorEmailsSentPerURLToday, SeenMatches, stateFile, saver, previous>>

Reachable == {r \in CheckResults : ~r.Error}
OneMatch == {r \in Reachable : r.Fields \in {NoFields, "a"}}

\* one step of the check loop of u; `fetched` is what its fetches can return,
\* `outcomes` what the Notifier can answer
monitorURL(u, fetched, outcomes) ==
    \/ checkSingleURL(u, fetched)
    \/ updateFoundState(u)
    \/ canSendAlert(u)
    \/ sendEmail(u, outcomes)
    \/ recordAlert(u)
    \/ RecordMatch(u)

\* Spec: one monitored URL whose fetches succeed and report any of the
\* matches, a Notifier that accepts, saves, crashes with restart
Next ==
    \/ monitorURL("u1", Reachable, {TRUE})
    \/ SaveStateBegin
    \/ SaveStateEnd
    \/ NewMonitor
    \/ Tick

Spec == Init /\ [][Next]_vars

\* SpecTwoPerDay: as Spec, with max_emails_per_url_per_day = 2
SpecTwoPerDay == Start(2) /\ [][Next]_vars

\* SpecStore: one URL, a Notifier that accepts, saves taken step by step,
\* crashes with restart
NextStore ==
    \/ monitorURL("u1", OneMatch, {TRUE})
    \/ SaveStateBegin
    \/ SaveStateWrite
    \/ SaveStateRename
    \/ NewMonitor
    \/ Tick

SpecStore == Init /\ [][NextStore]_vars

\* SpecCorrupt: one URL, a Notifier that accepts, saves, a state file that
\* can be damaged, crashes with restart
NextCorrupt ==
    \/ monitorURL("u1", OneMatch, {TRUE})
    \/ SaveStateBegin
    \/ SaveStateEnd
    \/ CorruptFile
    \/ NewMonitor
    \/ Tick

SpecCorrupt == Init /\ [][NextCorrupt]_vars

\* SpecGate: the check loops of both URLs side by side, within one run of
\* the process
NextGate ==
    \/ \E u \in URLConfigs : monitorURL(u, OneMatch, {TRUE})
    \/ Tick

SpecGate == Init /\ [][NextGate]_vars

\* SpecPanic: the check loops of both URLs, each of whose polls can panic
NextPanic ==
    \/ \E u \in URLConfigs : monitorURL(u, OneMatch, {TRUE})
    \/ \E u \in URLConfigs : panic(u)
    \/ Tick

SpecPanic == Init /\ [][NextPanic]_vars

\* SpecNotifier: one URL whose fetches can fail and a Notifier that can
\* refuse every message, within one run of the process
NextNotifier ==
    \/ monitorURL("u1", CheckResults \ (Reachable \ OneMatch), BOOLEAN)
    \/ canSendErrorEmail("u1")
    \/ sendErrorEmail("u1")
    \/ recordErrorEmail("u1")
    \/ Tick

SpecNotifier == Init /\ [][NextNotifier]_vars

\* SpecErrors: one URL whose fetches fail or find the match "a", a Notifier
\* that accepts every match notification (error and recovery notifications
\* can still be refused), within one run of the process
FailedOrMatched == {r \in CheckResults : r.Error \/ r.Fields = "a"}

NextErrors ==
    \/ monitorURL("u1", FailedOrMatched, {TRUE})
    \/ canSendErrorEmail("u1")
    \/ sendErrorEmail("u1")
    \/ recordErrorEmail("u1")
    \/ Tick

SpecErrors == Init /\ [][NextErrors]_vars

\* SpecOutage: one URL whose fetches fail or succeed without a match, and a
\* Notifier that can refuse, within one run of the process
Unmatched == {r \in CheckResults : ~r.Found}

NextOutage ==
    \/ checkSingleURL("u1", Unmatched)
    \/ canSendErrorEmail("u1")
    \/ sendErrorEmail("u1")
    \/ recordErrorEmail("u1")
    \/ updateFoundState("u1")
    \/ Tick

SpecOutage == Init /\ [][NextOutage]_vars

\* SpecRecipient: as SpecOutage, with or without an error_recipient in the
\* configuration file
ErrorRecipients == {ErrorRecipient, ""}

InitRecipient ==
    /\ \E recipient \in ErrorRecipients :
          StartConfigured([loadConfig(1) EXCEPT !.ErrorRecipient = recipient])
    /\ UtilsUnused

SpecRecipient == InitRecipient /\ [][NextOutage]_vars

\* ============================================================== stagger
\* int64 arithmetic of time.Duration: products wrap, quotients truncate to 0
Int64(x) ==
    LET half == 2 ^ (DurationBits - 1) IN ((x + half) % (2 * half)) - half
Quo(a, b) == IF a >= 0 THEN a \div b ELSE -((-a) \div b)

\* intervalDuration := time.Duration(m.config.CheckIntervalSeconds) * time.Second
intervalDuration(seconds) == Int64(seconds * Second)

\* seeded fault (tests C21): the index counts from 1
StaggerDelay_fromOne(interval, targets, index) ==
    Int64(Quo(interval, targets) * (index + 1))

\* staggerDelay := (intervalDuration / time.Duration(len(URLConfigs))) * time.Duration(index)
StaggerDelay(interval, targets, index) ==
    Int64(Quo(interval, targets) * index)

\* a Config that ValidateConfig accepts: an interval of at least 5 seconds
\* (no upper limit) and at least one URL
ValidSchedules ==
    [CheckIntervalSeconds : MinCheckIntervalSeconds..MaxSeconds, targets : 1..MaxTargets]

\* Start: `go m.monitorURL(urlConfig, i, &wg)` for every index; each
\* goroutine computes its staggerDelay first
monitorURLStagger(index) ==
    /\ index \in 0..(schedule.targets - 1)
    /\ ~Has(staggerDelay, index)
    /\ staggerDelay' = Put(staggerDelay, index,
                           StaggerDelay(intervalDuration(schedule.CheckIntervalSeconds),
                                        schedule.targets, index))
    /\ UNCHANGED <<monitorVars, partVars, schedule, stopChan, loop, maintenance, start, shutdown>>

InitStagger ==
    /\ StartMonitor(1)
    /\ schedule \in ValidSchedules
    /\ staggerDelay = EmptyMap
    /\ LoopsUnused
    /\ PartsUnused

NextStagger == \E index \in 0..(MaxTargets - 1) : monitorURLStagger(index)

SpecStagger == InitStagger /\ [][NextStagger]_vars

\* ============================================================ Shutdown
\* Shutdown: close(m.stopChan), then time.Sleep(2 * time.Second)
Shutdown ==
    /\ shutdown.at = "-"
    /\ stopChan' = TRUE
    /\ shutdown' = [shutdown EXCEPT !.at = "Sleep"]
    /\ UNCHANGED <<monitorVars, partVars, schedule, staggerDelay, loop, maintenance, start>>

\* the 2 seconds are over: m.saveState() is called
ShutdownSleepOver ==
    /\ shutdown.at = "Sleep"
    /\ shutdown' = [shutdown EXCEPT !.at = "saveState"]
    /\ UNCHANGED <<monitorVars, partVars, schedule, staggerDelay, stopChan, loop, maintenance, start>>

\* m.saveState() of Shutdown gets ServiceState.mu and begins the cleanup
ShutdownSaveState ==
    /\ shutdown.at = "saveState"
    /\ ~saver.active
    /\ cleanupOldDataUnsafeBegins
    /\ shutdown' = [at |-> "SaveState", emails |-> emailsSentPerURLToday,
                    errors |-> errorEmailsSentPerURLToday, seen |-> SeenMatches]
    /\ emitted' = Nothing
    /\ UNCHANGED <<partVars, schedule, staggerDelay, stopChan, loop, maintenance, start, config, outage,
                   tempFile, corruptedFiles, now, run, pc, result, foundURLs, unreachableURLs,
                   lastURLDownTime, lastAlertTime, emailsSentThisHour, emailsSentPerURLToday,
                   errorEmailsSentPerURLToday, SeenMatches, stateFile, delivered,
                   lastDelivered, previous>>

\* m.saveState() of Shutdown returns, and Shutdown after it
ShutdownReturns ==
    /\ shutdown.at = "SaveState"
    /\ saver.active
    /\ SaveStateReturns
    /\ shutdown' = [shutdown EXCEPT !.at = "returned"]
    /\ emitted' = Nothing
    /\ UNCHANGED <<partVars, schedule, staggerDelay, stopChan, loop, maintenance, start, config, outage,
                   tempFile, corruptedFiles, now, run, pc, result, foundURLs, unreachableURLs,
                   lastURLDownTime, lastAlertTime, emailsSentThisHour, delivered,
                   lastDelivered, previous>>

\* the check loop of u: `case <-m.stopChan: return`
monitorURLStopped(u) ==
    /\ pc[u] = "idle"
    /\ stopChan
    /\ pc' = [pc EXCEPT ![u] = "returned"]
    /\ emitted' = Nothing
    /\ UNCHANGED <<utilVars, partVars, config, outage, tempFile, corruptedFiles, now, run, result, foundURLs,
                   unreachableURLs, lastURLDownTime, lastAlertTime, emailsSentThisHour,
                   emailsSentPerURLToday, errorEmailsSentPerURLToday, SeenMatches, stateFile,
                   saver, delivered, lastDelivered, previous>>

\* SpecShutdown: one URL, a Notifier that accepts, saves, and a Shutdown
NextShutdown ==
    \/ monitorURL("u1", OneMatch, {TRUE})
    \/ monitorURLStopped("u1")
    \/ SaveStateBegin
    \/ SaveStateEnd
    \/ Shutdown
    \/ ShutdownSleepOver
    \/ ShutdownSaveState
    \/ ShutdownReturns
    \/ Tick

SpecShutdown == Init /\ [][NextShutdown]_vars

\* ================================================== the loops and the stop
\* the indexes of Config.URLConfigs
Loops == 0..(MaxTargets - 1)

\* select in monitorURL, initial delay: time.After(staggerDelay) fires, the
\* first check follows at once
staggerElapsed(i) ==
    /\ loop[i].at = "stagger"
    /\ loop' = [loop EXCEPT ![i].at = "checkSingleURL", ![i].polls = @ + 1]
    /\ UNCHANGED <<monitorVars, partVars, schedule, staggerDelay, stopChan, maintenance, start, shutdown>>

\* seeded fault (tests C22): the initial delay does not look at stopChan
staggerAborted_never(i) == FALSE

\* select in monitorURL, initial delay: `case <-m.stopChan: return`; the
\* deferred wg.Done() runs
staggerAborted(i) ==
    /\ loop[i].at = "stagger"
    /\ stopChan
    /\ loop' = [loop EXCEPT ![i].at = "returned"]
    /\ UNCHANGED <<monitorVars, partVars, schedule, staggerDelay, stopChan, maintenance, start, shutdown>>

\* m.checkSingleURL(urlConfig) returns; the loop selects again
checkSingleURLReturns(i) ==
    /\ loop[i].at = "checkSingleURL"
    /\ loop' = [loop EXCEPT ![i].at = "select", ![i].polled = TRUE, ![i].polls = @ - 1]
    /\ UNCHANGED <<monitorVars, partVars, schedule, staggerDelay, stopChan, maintenance, start, shutdown>>

\* select in the check loop: `case <-ticker.C`, for a tick that arrives while
\* the loop waits in the select; checkSingleURL is called in the loop itself
tickerFires(i) ==
    /\ loop[i].at = "select"
    /\ loop[i].ticks = 0
    /\ loop' = [loop EXCEPT ![i].at = "checkSingleURL", ![i].polls = @ + 1]
    /\ UNCHANGED <<monitorVars, partVars, schedule, staggerDelay, stopChan, maintenance, start, shutdown>>

\* seeded fault (tests C39): a tick that arrives during a poll starts a
\* poll in a goroutine of its own
tickerBuffers_spawns(i) ==
    /\ loop[i].at = "checkSingleURL"
    /\ loop[i].polled
    /\ loop[i].polls < 2
    /\ loop' = [loop EXCEPT ![i].polls = @ + 1]
    /\ UNCHANGED <<monitorVars, partVars, schedule, staggerDelay, stopChan, maintenance, start, shutdown>>

\* the ticker made by time.NewTicker after the first check sends on ticker.C
\* while the poll of the previous tick runs: the channel holds one tick
\* (a tick that finds it full is dropped), nobody receives it yet
tickerBuffers(i) ==
    /\ loop[i].at = "checkSingleURL"
    /\ loop[i].polled
    /\ loop' = [loop EXCEPT ![i].ticks = 1]
    /\ UNCHANGED <<monitorVars, partVars, schedule, staggerDelay, stopChan, maintenance, start, shutdown>>

\* select in the check loop: `case <-ticker.C` receives the tick that waited
\* in the channel
tickerBuffered(i) ==
    /\ loop[i].at = "select"
    /\ loop[i].ticks = 1
    /\ loop' = [loop EXCEPT ![i].at = "checkSingleURL", ![i].ticks = 0, ![i].polls = @ + 1]
    /\ UNCHANGED <<monitorVars, partVars, schedule, staggerDelay, stopChan, maintenance, start, shutdown>>

\* select in the check loop: `case <-m.stopChan: return`
loopStopped(i) ==
    /\ loop[i].at = "select"
    /\ stopChan
    /\ loop' = [loop EXCEPT ![i].at = "returned"]
    /\ UNCHANGED <<monitorVars, partVars, schedule, staggerDelay, stopChan, maintenance, start, shutdown>>

\* the maintenance goroutine: `case <-stateTicker.C` or `case <-cleanupTicker.C`
maintenanceTask ==
    /\ maintenance = "select"
    /\ maintenance' \in {"saveState", "CleanupExpired"}
    /\ UNCHANGED <<monitorVars, partVars, schedule, staggerDelay, stopChan, loop, start, shutdown>>

\* m.saveState() or m.dnsCache.CleanupExpired() returns
maintenanceTaskReturns ==
    /\ maintenance \in {"saveState", "CleanupExpired"}
    /\ maintenance' = "select"
    /\ UNCHANGED <<monitorVars, partVars, schedule, staggerDelay, stopChan, loop, start, shutdown>>

\* the maintenance goroutine: `case <-m.stopChan: return`
maintenanceStopped ==
    /\ maintenance = "select"
    /\ stopChan
    /\ maintenance' = "returned"
    /\ UNCHANGED <<monitorVars, partVars, schedule, staggerDelay, stopChan, loop, start, shutdown>>

\* wg.Wait() at the end of Start returns when every monitorURL has returned
StartReturns ==
    /\ start = "wg.Wait"
    /\ \A i \in DOMAIN loop : loop[i].at = "returned"
    /\ start' = "returned"
    /\ UNCHANGED <<monitorVars, partVars, schedule, staggerDelay, stopChan, loop, maintenance, shutdown>>

\* Shutdown: close(m.stopChan)
closeStopChan ==
    /\ ~stopChan
    /\ stopChan' = TRUE
    /\ UNCHANGED <<monitorVars, partVars, schedule, staggerDelay, loop, maintenance, start, shutdown>>

\* Start has started one goroutine per URL and the maintenance goroutine, and
\* waits
InitStop ==
    /\ StartMonitor(1)
    /\ StaggerUnused
    /\ stopChan = FALSE
    /\ loop = [i \in Loops |-> [at |-> "stagger", polled |-> FALSE, ticks |-> 0, polls |-> 0]]
    /\ maintenance = "select"
    /\ start = "wg.Wait"
    /\ shutdown = NoShutdown
    /\ PartsUnused

NextStop ==
    \/ \E i \in Loops :
          \/ staggerElapsed(i)
          \/ staggerAborted(i)
          \/ checkSingleURLReturns(i)
          \/ tickerFires(i)
          \/ loopStopped(i)
    \/ maintenanceTask
    \/ maintenanceTaskReturns
    \/ maintenanceStopped
    \/ StartReturns
    \/ closeStopChan

\* A select with several ready cases takes one of them at random: a case that
\* is ready again and again is taken at last (strong fairness of the stop
\* cases).  A poll and a maintenance task in flight return (weak fairness).
FairStop ==
    /\ \A i \in Loops :
          /\ SF_vars(staggerAborted(i))
          /\ SF_vars(loopStopped(i))
          /\ WF_vars(checkSingleURLReturns(i))
    /\ SF_vars(maintenanceStopped)
    /\ WF_vars(maintenanceTaskReturns)
    /\ WF_vars(StartReturns)

SpecStop == InitStop /\ [][NextStop]_vars /\ FairStop

\* SpecTicker: the loops with the channel of each loop's ticker
NextTicker ==
    \/ NextStop
    \/ \E i \in Loops : tickerBuffers(i)
    \/ \E i \in Loops : tickerBuffered(i)

SpecTicker == InitStop /\ [][NextTicker]_vars

\* ================================================================ locks
\* What every call does to the locks of the shared structures.  A call is
\* the sequence of its events: <<"Lock", mu>>, <<"RLock", mu>>, <<"Unlock",
\* mu>>, <<"RUnlock", mu>>; <<"touch", map>>, a read or write of a shared
\* map; <<"net", call>>, a call that waits for the network; <<"file", call>>,
\* one that waits for the disk.

\* the structure a lock belongs to: every DNSCacheEntry is part of the DNSCache
Structure(mu) == IF mu = "entry.mu" THEN "dnsCache.mu" ELSE mu

\* the fields of the ServiceState that is written to the state file
PersistedFields == {"EmailsSentPerURLToday", "ErrorEmailsSentPerURLToday", "SeenMatches",
                    "RecentEmailNotifications"}

\* DNSCache.Resolve: a hit; a miss that updates the entry; a miss that adds
\* an entry; a failed lookup that falls back to the entry.  A seeded fault
\* first: the lookup made under the cache's lock
Resolve_lookupLocked ==
    { <<<<"RLock", "dnsCache.mu">>, <<"net", "LookupIP">>, <<"RUnlock", "dnsCache.mu">>>> }

Resolve_locks ==
    { <<<<"RLock", "dnsCache.mu">>, <<"RUnlock", "dnsCache.mu">>,
        <<"RLock", "entry.mu">>, <<"RUnlock", "entry.mu">>>>,
      <<<<"RLock", "dnsCache.mu">>, <<"RUnlock", "dnsCache.mu">>, <<"net", "LookupIP">>,
        <<"RLock", "entry.mu">>, <<"RUnlock", "entry.mu">>,
        <<"Lock", "entry.mu">>, <<"Unlock", "entry.mu">>>>,
      <<<<"RLock", "dnsCache.mu">>, <<"RUnlock", "dnsCache.mu">>, <<"net", "LookupIP">>,
        <<"Lock", "dnsCache.mu">>, <<"Unlock", "dnsCache.mu">>>>,
      <<<<"RLock", "dnsCache.mu">>, <<"RUnlock", "dnsCache.mu">>, <<"net", "LookupIP">>,
        <<"RLock", "entry.mu">>, <<"RUnlock", "entry.mu">>>> }

\* checkURL after the resolution: UserAgentManager.GetNext, then the fetch
checkURL_locks ==
    { <<<<"RLock", "uam.mu">>, <<"RUnlock", "uam.mu">>, <<"net", "client.Do">>>> }

\* the sections of checkSingleURL, handleCheckResult, handleConnectionFailure
\* and handleConnectionRecovery under Monitor.mu; IsMatchSeen, RecordMatch and
\* recentEvents.Add as handleCheckResult calls them
handleCheckResult_locks ==
    { <<<<"Lock", "m.mu">>, <<"Unlock", "m.mu">>>>,
      <<<<"RLock", "state.mu">>, <<"touch", "SeenMatches">>, <<"RUnlock", "state.mu">>>>,
      <<<<"Lock", "state.mu">>, <<"touch", "SeenMatches">>, <<"Unlock", "state.mu">>>>,
      <<<<"Lock", "recentEvents.mu">>, <<"Unlock", "recentEvents.mu">>>> }

canSendAlert_locks ==
    { <<<<"RLock", "m.mu">>, <<"RUnlock", "m.mu">>,
        <<"Lock", "emailMu">>, <<"touch", "emailsSentThisHour">>,
        <<"touch", "EmailsSentPerURLToday">>, <<"Unlock", "emailMu">>>> }

\* a seeded fault: the gate's lock taken inside Monitor.mu
recordAlert_nested ==
    { <<<<"Lock", "m.mu">>, <<"Lock", "emailMu">>, <<"touch", "emailsSentThisHour">>,
        <<"touch", "EmailsSentPerURLToday">>, <<"Unlock", "emailMu">>, <<"Unlock", "m.mu">>>> }

recordAlert_locks ==
    { <<<<"Lock", "m.mu">>, <<"Unlock", "m.mu">>,
        <<"Lock", "emailMu">>, <<"touch", "emailsSentThisHour">>,
        <<"touch", "EmailsSentPerURLToday">>, <<"Unlock", "emailMu">>>> }

\* canSendErrorEmail and recordErrorEmail
errorEmail_locks ==
    { <<<<"Lock", "emailMu">>, <<"touch", "ErrorEmailsSentPerURLToday">>,
        <<"Unlock", "emailMu">>>> }

\* sendEmail, sendErrorEmail, sendRecoveryEmail: the send, then recordEmailNotification
sendEmail_locks ==
    { <<<<"net", "sendBrevoEmail">>, <<"Lock", "state.mu">>,
        <<"touch", "RecentEmailNotifications">>, <<"Unlock", "state.mu">>>> }

\* Monitor.saveState, then ServiceState.SaveState with cleanupOldDataUnsafe
saveState_locks ==
    { <<<<"Lock", "emailMu">>, <<"touch", "EmailsSentPerURLToday">>,
        <<"touch", "ErrorEmailsSentPerURLToday">>, <<"Unlock", "emailMu">>,
        <<"Lock", "state.mu">>, <<"touch", "SeenMatches">>,
        <<"touch", "EmailsSentPerURLToday">>, <<"touch", "ErrorEmailsSentPerURLToday">>,
        <<"file", "WriteFile">>, <<"Unlock", "state.mu">>>> }

\* DNSCache.CleanupExpired, as the maintenance goroutine calls it
CleanupExpired_locks ==
    { <<<<"Lock", "dnsCache.mu">>, <<"RLock", "entry.mu">>, <<"RUnlock", "entry.mu">>,
        <<"Unlock", "dnsCache.mu">>>> }

\* AsyncLogger.run appending an entry; GetLogs, CircularBuffer.GetAll and
\* getRecentEmailNotifications as the readers of the dashboard call them
reader_locks ==
    { <<<<"Lock", "asyncLogger.mu">>, <<"Unlock", "asyncLogger.mu">>>>,
      <<<<"RLock", "asyncLogger.mu">>, <<"RUnlock", "asyncLogger.mu">>>>,
      <<<<"RLock", "recentEvents.mu">>, <<"RUnlock", "recentEvents.mu">>>>,
      <<<<"RLock", "state.mu">>, <<"touch", "RecentEmailNotifications">>,
        <<"RUnlock", "state.mu">>>> }

\* the goroutines: two monitorURL loops, a saveState call (of a loop's "go
\* m.saveState()", of the maintenance goroutine or of Shutdown), and one of
\* the maintenance goroutine, AsyncLogger.run and a dashboard reader at a time
TargetLoops == {"monitorURL 0", "monitorURL 1"}
Goroutines == TargetLoops \cup {"saveState", "background"}

\* the calls a goroutine makes, one after the other in any order
Calls(g) ==
    CASE g \in TargetLoops -> Resolve_locks \cup checkURL_locks \cup handleCheckResult_locks
                                \cup canSendAlert_locks \cup recordAlert_locks
                                \cup errorEmail_locks \cup sendEmail_locks
      [] g = "saveState" -> saveState_locks
      [] OTHER -> CleanupExpired_locks \cup reader_locks

\* sync.RWMutex: Lock waits for every holder, RLock for the writer
Holders(mu) == {h \in Goroutines : \E mode \in {"Lock", "RLock"} : <<mode, mu>> \in locks[h].held}
Writers(mu) == {h \in Goroutines : <<"Lock", mu>> \in locks[h].held}

Blocked(g) ==
    /\ locks[g].todo # <<>>
    /\ LET e == Head(locks[g].todo)
       IN  \/ e[1] = "Lock" /\ Holders(e[2]) # {}
           \/ e[1] = "RLock" /\ Writers(e[2]) # {}

\* the goroutine enters a call
lockCall(g) ==
    /\ locks[g].todo = <<>>
    /\ \E call \in Calls(g) : locks' = [locks EXCEPT ![g].todo = call]
    /\ UNCHANGED <<monitorVars, utilVars, recentEvents, asyncLogger, dnsCache>>

\* the goroutine makes the next event of its call
lockStep(g) ==
    /\ locks[g].todo # <<>>
    /\ ~Blocked(g)
    /\ LET e == Head(locks[g].todo)
           held == CASE e[1] \in {"Lock", "RLock"} -> locks[g].held \cup {e}
                     [] e[1] = "Unlock" -> locks[g].held \ {<<"Lock", e[2]>>}
                     [] e[1] = "RUnlock" -> locks[g].held \ {<<"RLock", e[2]>>}
                     [] OTHER -> locks[g].held
       IN  locks' = [locks EXCEPT ![g] = [todo |-> Tail(locks[g].todo), held |-> held]]
    /\ UNCHANGED <<monitorVars, utilVars, recentEvents, asyncLogger, dnsCache>>

InitLocks ==
    /\ StartMonitor(1)
    /\ StaggerUnused
    /\ LoopsUnused
    /\ locks = [g \in Goroutines |-> [todo |-> <<>>, held |-> {}]]
    /\ recentEvents = EmptyMap
    /\ asyncLogger = EmptyMap
    /\ dnsCache = EmptyMap

NextLocks == \E g \in Goroutines : lockCall(g) \/ lockStep(g)

SpecLocks == InitLocks /\ [][NextLocks]_vars

\* ======================================================= CircularBuffer
\* CircularBuffer (utils.go): items is the slice, indexed from 0; nil is the
\* zero value of a slot that was never written.

Items == {"a", "b"}

NewCircularBuffer(capacity) ==
    [items |-> [i \in 0..(capacity - 1) |-> "nil"], head |-> 0, tail |-> 0, count |-> 0,
     capacity |-> capacity]

\* a seeded fault: a full buffer overwrites its newest slot
CircularBuffer_Add_newest(cb, item) ==
    IF cb.count < cb.capacity
    THEN [cb EXCEPT !.items[cb.tail] = item,
                    !.tail = (cb.tail + 1) % cb.capacity,
                    !.count = cb.count + 1]
    ELSE [cb EXCEPT !.items[(cb.head + cb.capacity - 1) % cb.capacity] = item]

CircularBuffer_Add(cb, item) ==
    IF cb.count < cb.capacity
    THEN [cb EXCEPT !.items[cb.tail] = item,
                    !.tail = (cb.tail + 1) % cb.capacity,
                    !.count = cb.count + 1]
    ELSE [cb EXCEPT !.items[cb.head] = item,
                    !.head = (cb.head + 1) % cb.capacity,
                    !.tail = (cb.tail + 1) % cb.capacity]

CircularBuffer_GetAll(cb) ==
    IF cb.count = 0 THEN <<>>
    ELSE IF cb.count < cb.capacity
    THEN [i \in 1..cb.count |-> cb.items[i - 1]]
    ELSE [i \in 1..cb.capacity |-> cb.items[(cb.head + (i - 1)) % cb.capacity]]

\* recentEvents.Add(item); `added` is the history of the items added
recentEventsAdd(item) ==
    /\ Len(recentEvents.added) < MaxAdds
    /\ recentEvents' = [recentEvents EXCEPT !.cb = CircularBuffer_Add(recentEvents.cb, item),
                                            !.added = Append(recentEvents.added, item)]
    /\ UNCHANGED <<monitorVars, utilVars, locks, asyncLogger, dnsCache>>

\* events := recentEvents.GetAll(); `got` is what the latest call returned
recentEventsGetAll ==
    /\ recentEvents' = [recentEvents EXCEPT !.got = CircularBuffer_GetAll(recentEvents.cb)]
    /\ UNCHANGED <<monitorVars, utilVars, locks, asyncLogger, dnsCache>>

InitBuffer ==
    /\ StartMonitor(1)
    /\ StaggerUnused
    /\ LoopsUnused
    /\ locks = EmptyMap
    /\ \E capacity \in 1..MaxCapacity :
          recentEvents = [cb |-> NewCircularBuffer(capacity), added |-> <<>>, got |-> <<>>]
    /\ asyncLogger = EmptyMap
    /\ dnsCache = EmptyMap

NextBuffer ==
    \/ \E item \in Items : recentEventsAdd(item)
    \/ recentEventsGetAll

SpecBuffer == InitBuffer /\ [][NextBuffer]_vars

\* ========================================================== AsyncLogger
\* AsyncLogger (utils.go): logChan is the buffered channel, buffer the rolling
\* slice of the last maxLines entries, run its goroutine.  An entry is the
\* number of the Add call that brought it.

NewAsyncLogger(maxLines) ==
    [logChan |-> <<>>, buffer |-> <<>>, maxLines |-> maxLines,
     run |-> "select", entry |-> 0, stopChan |-> FALSE, reading |-> FALSE,
     calls |-> 0, enqueued |-> <<>>, dropped |-> {}]

\* a seeded fault: Add's select without its default case
AddCases_noDefault(al) ==
    IF Len(al.logChan) < LogChanCapacity THEN {"al.logChan <- entry"} ELSE {}

\* the cases Add's select can take: the send when the channel has room, the
\* default only when no other case can proceed
AddCases(al) ==
    IF Len(al.logChan) < LogChanCapacity THEN {"al.logChan <- entry"} ELSE {"default"}

\* asyncLogger.Add(entry), by any goroutine
AsyncLoggerAdd ==
    /\ asyncLogger.calls < MaxAdds
    /\ LET entry == asyncLogger.calls + 1
       IN  \E case \in AddCases(asyncLogger) :
             asyncLogger' =
                IF case = "default"
                THEN [asyncLogger EXCEPT !.calls = entry, !.dropped = @ \cup {entry}]
                ELSE [asyncLogger EXCEPT !.calls = entry,
                                         !.logChan = Append(@, entry),
                                         !.enqueued = Append(@, entry)]
    /\ UNCHANGED <<monitorVars, utilVars, locks, recentEvents, dnsCache>>

\* run: case entry := <-al.logChan
runReceives ==
    /\ asyncLogger.run = "select"
    /\ asyncLogger.logChan # <<>>
    /\ asyncLogger' = [asyncLogger EXCEPT !.run = "Lock",
                                          !.entry = Head(asyncLogger.logChan),
                                          !.logChan = Tail(asyncLogger.logChan)]
    /\ UNCHANGED <<monitorVars, utilVars, locks, recentEvents, dnsCache>>

\* run: al.mu.Lock(), which waits for a GetLogs in progress; the append and
\* the cut to the last maxLines entries; al.mu.Unlock()
runAppends ==
    /\ asyncLogger.run = "Lock"
    /\ ~asyncLogger.reading
    /\ LET buffer == Append(asyncLogger.buffer, asyncLogger.entry)
           cut == IF Len(buffer) > asyncLogger.maxLines
                  THEN SubSeq(buffer, Len(buffer) - asyncLogger.maxLines + 1, Len(buffer))
                  ELSE buffer
       IN  asyncLogger' = [asyncLogger EXCEPT !.run = "select", !.entry = 0, !.buffer = cut]
    /\ UNCHANGED <<monitorVars, utilVars, locks, recentEvents, dnsCache>>

\* run: case <-al.stopChan
runReturns ==
    /\ asyncLogger.run = "select"
    /\ asyncLogger.stopChan
    /\ asyncLogger' = [asyncLogger EXCEPT !.run = "returned"]
    /\ UNCHANGED <<monitorVars, utilVars, locks, recentEvents, dnsCache>>

\* GetLogs holds al.mu for reading while it copies the buffer
GetLogs ==
    /\ asyncLogger' = [asyncLogger EXCEPT !.reading = ~asyncLogger.reading]
    /\ UNCHANGED <<monitorVars, utilVars, locks, recentEvents, dnsCache>>

\* Stop: close(al.stopChan)
AsyncLoggerStop ==
    /\ ~asyncLogger.stopChan
    /\ asyncLogger' = [asyncLogger EXCEPT !.stopChan = TRUE]
    /\ UNCHANGED <<monitorVars, utilVars, locks, recentEvents, dnsCache>>

InitLogger ==
    /\ StartMonitor(1)
    /\ StaggerUnused
    /\ LoopsUnused
    /\ locks = EmptyMap
    /\ recentEvents = EmptyMap
    /\ \E maxLines \in 1..MaxCapacity : asyncLogger = NewAsyncLogger(maxLines)
    /\ dnsCache = EmptyMap

NextLogger ==
    \/ AsyncLoggerAdd
    \/ runReceives
    \/ runAppends
    \/ runReturns
    \/ GetLogs
    \/ AsyncLoggerStop

SpecLogger == InitLogger /\ [][NextLogger]_vars

\* ============================================================= DNSCache
\* DNSCache (part_000): entries maps a host name to its DNSCacheEntry.  The
\* cache has its own reading of the clock, time.Now(); a Resolve call keeps
\* the pointer to the entry it found, which CleanupExpired may meanwhile have
\* deleted from the map (detached).

Addresses == {"10.0.0.1", "10.0.0.2"}
Hostnames == {"10.0.0.1", "elektro.example"}

\* net.ParseIP(hostname) != nil
ParseIP(hostname) == hostname \in Addresses

\* what net.LookupIP returns: the addresses (all IPv4 here) and the error
LookupResults ==
    {[ips |-> <<>>, err |-> "no such host"], [ips |-> <<>>, err |-> "nil"]}
        \cup {[ips |-> <<a>>, err |-> "nil"] : a \in Addresses}
        \cup {[ips |-> <<a, b>>, err |-> "nil"] : a, b \in Addresses}

NoCall ==
    [at |-> "-", hostname |-> "", exists |-> FALSE, entry |-> EmptyMap, detached |-> FALSE,
     now |-> 0, before |-> EmptyMap, looked |-> FALSE, lookup |-> [ips |-> <<>>, err |-> "nil"],
     ret |-> [ip |-> "", changed |-> FALSE, err |-> "nil"]]

NewDNSCache == [entries |-> EmptyMap, clock |-> 0, call |-> NoCall]

\* Resolve up to net.LookupIP: the literal address, the read of the entry
\* under dc.mu, the unexpired hit
ResolveBegins(hostname) ==
    /\ dnsCache.call.at \in {"-", "returned"}
    /\ LET exists == hostname \in DOMAIN dnsCache.entries
           entry == IF exists THEN dnsCache.entries[hostname] ELSE EmptyMap
           call == [NoCall EXCEPT !.hostname = hostname, !.before = dnsCache.entries,
                                  !.now = dnsCache.clock]
       IN  dnsCache' = [dnsCache EXCEPT !.call =
              IF ParseIP(hostname)
              THEN [call EXCEPT !.at = "returned",
                                !.ret = [ip |-> hostname, changed |-> FALSE, err |-> "nil"]]
              ELSE IF exists /\ dnsCache.clock < entry.ExpiresAt
              THEN [call EXCEPT !.at = "returned", !.exists = TRUE, !.entry = entry,
                                !.ret = [ip |-> entry.ResolvedIP, changed |-> FALSE,
                                         err |-> "nil"]]
              ELSE [call EXCEPT !.at = "LookupIP", !.exists = exists, !.entry = entry]]
    /\ UNCHANGED <<monitorVars, utilVars, locks, recentEvents, asyncLogger>>

\* the update of the entry the call holds (which changes the map's entry only
\* while the map still points to it), or the insertion of a new entry
UpsertEntry(dc, resolvedIP) ==
    LET new == [ResolvedIP |-> resolvedIP, ExpiresAt |-> dc.call.now + DNSCacheTTL]
        h == dc.call.hostname
    IN  IF dc.call.exists /\ dc.call.detached
        THEN dc.entries
        ELSE [k \in DOMAIN dc.entries \cup {h} |-> IF k = h THEN new ELSE dc.entries[k]]

\* Resolve from net.LookupIP to its return
ResolveLooksUp ==
    /\ dnsCache.call.at = "LookupIP"
    /\ \E lookup \in LookupResults :
         LET call == [dnsCache.call EXCEPT !.at = "returned", !.looked = TRUE,
                                           !.lookup = lookup]
             fallbackIP == call.entry.ResolvedIP
         IN  IF lookup.err # "nil"
             THEN dnsCache' = [dnsCache EXCEPT !.call = [call EXCEPT !.ret =
                     IF call.exists
                     THEN [ip |-> fallbackIP, changed |-> FALSE, err |-> lookup.err]
                     ELSE [ip |-> "", changed |-> FALSE, err |-> lookup.err]]]
             ELSE IF Len(lookup.ips) = 0
             THEN dnsCache' = [dnsCache EXCEPT !.call = [call EXCEPT !.ret =
                     IF call.exists
                     THEN [ip |-> fallbackIP, changed |-> FALSE, err |-> "nil"]
                     ELSE [ip |-> "", changed |-> FALSE, err |-> "no IP addresses found"]]]
             ELSE LET resolvedIP == lookup.ips[1]
                      ipChanged == call.exists /\ call.entry.ResolvedIP # resolvedIP
                  IN  dnsCache' = [dnsCache EXCEPT
                         !.entries = UpsertEntry(dnsCache, resolvedIP),
                         !.call = [call EXCEPT !.ret = [ip |-> resolvedIP,
                                                        changed |-> ipChanged,
                                                        err |-> "nil"]]]
    /\ UNCHANGED <<monitorVars, utilVars, locks, recentEvents, asyncLogger>>

\* CleanupExpired, called by the maintenance goroutine
CleanupExpired ==
    /\ LET expired == {h \in DOMAIN dnsCache.entries :
                          dnsCache.clock > dnsCache.entries[h].ExpiresAt}
       IN  dnsCache' = [dnsCache EXCEPT
              !.entries = [h \in DOMAIN dnsCache.entries \ expired |-> dnsCache.entries[h]],
              !.call.detached = \/ dnsCache.call.detached
                                \/ /\ dnsCache.call.at = "LookupIP"
                                   /\ dnsCache.call.hostname \in expired]
    /\ UNCHANGED <<monitorVars, utilVars, locks, recentEvents, asyncLogger>>

\* time passes
dnsClockTick ==
    /\ dnsCache.clock < MaxTime
    /\ dnsCache' = [dnsCache EXCEPT !.clock = dnsCache.clock + 1]
    /\ UNCHANGED <<monitorVars, utilVars, locks, recentEvents, asyncLogger>>

InitDNS ==
    /\ StartMonitor(1)
    /\ StaggerUnused
    /\ LoopsUnused
    /\ locks = EmptyMap
    /\ recentEvents = EmptyMap
    /\ asyncLogger = EmptyMap
    /\ dnsCache = NewDNSCache

NextDNS ==
    \/ \E hostname \in Hostnames : ResolveBegins(hostname)
    \/ ResolveLooksUp
    \/ CleanupExpired
    \/ dnsClockTick

SpecDNS == InitDNS /\ [][NextDNS]_vars

\* the same without the maintenance goroutine
NextDNSAlone ==
    \/ \E hostname \in Hostnames : ResolveBegins(hostname)
    \/ ResolveLooksUp
    \/ dnsClockTick

SpecDNSAlone == InitDNS /\ [][NextDNSAlone]_vars

\* ================================================================ claims
\* what the three checks of canSendAlert look at, counted on the stored lists
RecentlySent(times, age) == Cardinality({i \in DOMAIN times : times[i] > now - age})
CooldownOver(u) ==
    <<u, "found">> \in DOMAIN lastAlertTime
        => now - lastAlertTime[<<u, "found">>] >= AlertCooldownMinutes
HourlyFree == RecentlySent(emailsSentThisHour, OneHour) < EmailRateLimitPerHour
DailyFree(u) ==
    u \in DOMAIN emailsSentPerURLToday
        => RecentlySent(emailsSentPerURLToday[u], OneDay) < MaxEmailsPerURLPerDay
GateOpen(u) == CooldownOver(u) /\ HourlyFree /\ DailyFree(u)
StoredFresh(seen, h) == h \in DOMAIN seen /\ now - seen[h].LastNotified <= SevenDays
\* the step in which the Notifier accepts a found notification of u
Dispatches(u) == pc[u] = "send" /\ pc'[u] = "record" /\ result'[u].Accepted
HashOf(u) == <<u, result[u].Fields>>

\* C1: a found notification is dispatched only if, at that poll, the stored
\* found-state was not Found, the match was not seen within 7 days and
\* canSendAlert's three checks (cooldown, hourly, daily) all pass; a denied
\* or duplicate transition dispatches nothing.
C1_DispatchNeedsAllThree ==
    [][\A u \in URLConfigs :
        /\ (pc[u] = "found" /\ pc'[u] = "alert") =>
              /\ result'[u].wasFound = (u \in foundURLs)
              /\ result'[u].alreadySeen = StoredFresh(SeenMatches, HashOf(u))
        /\ (pc[u] = "alert" /\ pc'[u] = "send") =>
              /\ ~result[u].wasFound
              /\ ~result[u].alreadySeen
              /\ (result'[u].Gate = "allowed") = GateOpen(u)
        /\ (pc[u] = "send" /\ pc'[u] = "record") => result[u].Gate = "allowed"
        /\ pc'[u] = "record" => pc[u] \in {"send", "record"}
        /\ pc'[u] = "send" => pc[u] \in {"alert", "send"}
        /\ pc'[u] = "alert" => pc[u] \in {"found", "alert"}
        /\ (\E i \in DOMAIN delivered' : delivered'[i] \notin {delivered[j] : j \in DOMAIN delivered})
              => \E v \in URLConfigs : pc[v] = "send" /\ pc'[v] = "record"
      ]_vars

\* C1 witness: a not-Found -> Found transition with a match never seen, while
\* the per-URL daily cap alone is exhausted: canSendAlert has answered no
C1_Witness ==
    \E u \in URLConfigs :
        /\ pc[u] = "send" /\ result[u].Gate = "daily"
        /\ ~result[u].wasFound /\ ~result[u].alreadySeen
        /\ HashOf(u) \notin DOMAIN SeenMatches
        /\ CooldownOver(u) /\ HourlyFree /\ ~DailyFree(u)

\* C2 (as stated): once a poll of a sequence of consecutive polls extracting
\* the same fields is handled, exactly one notification has been dispatched
\* for these fields (the sequence starts at a URL not stored as found)
C2_ExactlyOne ==
    \A u \in URLConfigs :
        (pc[u] = "idle" /\ previous[u].Transition)
            => /\ previous[u].Sent = 1 \/ <<u, previous[u].Fields>> \in DOMAIN lastDelivered
               /\ previous[u].Sent <= 1

\* C2 (amended): over consecutive successful polls of one run that extract the
\* same fields at most one notification is dispatched
C2_AtMostOne == \A u \in URLConfigs : previous[u].Sent <= 1

\* C2 witness: a later poll of such a sequence, one notification dispatched,
\* the dedup window over and the gate open: the poll is about to end silent
C2_Witness ==
    \E u \in URLConfigs :
        /\ pc[u] = "alert" /\ result[u].wasFound /\ ~result[u].alreadySeen
        /\ previous[u].Sent = 1 /\ GateOpen(u)

\* C3: a poll of an already Found URL that extracts a match never notified
\* goes on to dispatch a notification when dedup and the gate allow it
C3_NewFingerprintNotifies ==
    [][\A u \in URLConfigs :
        (/\ pc[u] = "alert" /\ pc'[u] # "alert" /\ run' = run
         /\ result[u].wasFound /\ ~result[u].alreadySeen
         /\ HashOf(u) \notin DOMAIN lastDelivered
         /\ GateOpen(u))
        => (pc'[u] = "send" /\ result'[u].Gate = "allowed")
      ]_vars

\* C4: a match whose notification was dispatched before a crash is not
\* notified again after the restart (within the 7 days)
C4_NoDuplicateAfterCrash ==
    [][\A u \in URLConfigs :
        Dispatches(u) =>
            ~(/\ HashOf(u) \in DOMAIN lastDelivered
              /\ lastDelivered[HashOf(u)].Run < run
              /\ now - lastDelivered[HashOf(u)].At <= SevenDays)
      ]_vars

\* C5: while the state file holds a record of a match notified at most 7 days
\* ago, no notification for that match is dispatched, in any later run
C5_SavedMatchNotRenotified ==
    [][\A u \in URLConfigs :
        Dispatches(u) => ~(stateFile.exists /\ StoredFresh(stateFile.seen, HashOf(u)))
      ]_vars

\* C5 witness: after a restart a poll extracts a match that was notified and
\* saved in the run before; IsMatchSeen has answered yes
C5_Witness ==
    \E u \in URLConfigs :
        /\ run > 0 /\ pc[u] = "alert"
        /\ ~result[u].wasFound /\ result[u].alreadySeen
        /\ stateFile.exists /\ StoredFresh(stateFile.seen, HashOf(u))
        /\ HashOf(u) \in DOMAIN lastDelivered
        /\ lastDelivered[HashOf(u)].Run < run

\* C6: when the Notifier accepted nothing, the step that follows the send
\* changes none of the gate's lists, the last-alert times and the seen matches
C6_NoBookkeepingOnFailure ==
    [][\A u \in URLConfigs :
        (pc[u] \in {"record", "match", "errRecord"} /\ pc'[u] # pc[u] /\ ~result[u].Accepted)
        => UNCHANGED <<lastAlertTime, emailsSentThisHour, emailsSentPerURLToday,
                       errorEmailsSentPerURLToday, SeenMatches>>
      ]_vars

\* C7: per URL, the found notifications dispatched by the running process
\* in the last 24 hours never exceed max_emails_per_url_per_day
C7_DailyCapHolds ==
    \A u \in URLConfigs :
        Cardinality({i \in DOMAIN delivered :
                        /\ delivered[i].URL = u /\ delivered[i].Type = "found"
                        /\ delivered[i].At > now - OneDay}) <= MaxEmailsPerURLPerDay

\* C8: over all URLs, the found notifications dispatched by the running
\* process in the last hour never exceed email_rate_limit_per_hour
C8_HourlyCapHolds ==
    Cardinality({i \in DOMAIN delivered :
                    /\ delivered[i].Type = "found"
                    /\ delivered[i].At > now - OneHour}) <= EmailRateLimitPerHour

\* C9: canSendAlert answers no for every URL while the hourly list holds H
\* timestamps of the last hour, and it leaves by the hourly check only then:
\* once a timestamp is over an hour old it no longer counts
C9_HourlyWindow ==
    [][\A u \in URLConfigs :
        /\ (pc[u] = "alert" /\ pc'[u] = "send") =>
              /\ ~HourlyFree => result'[u].Gate \in {"cooldown", "hourly"}
              /\ result'[u].Gate = "hourly" => ~HourlyFree
              /\ (CooldownOver(u) /\ ~HourlyFree) => result'[u].Gate = "hourly"
        \* the list counts the calls of recordAlert: each adds one timestamp
        \* of the last hour, and no other step takes one away
        /\ (pc[u] = "record" /\ pc'[u] = "match") =>
              RecentlySent(emailsSentThisHour', OneHour)
                  = RecentlySent(emailsSentThisHour, OneHour) + 1
        /\ now' = now =>
              RecentlySent(emailsSentThisHour', OneHour)
                  >= RecentlySent(emailsSentThisHour, OneHour)
      ]_vars

\* C9 witness: H alerts were recorded, the earliest is over an hour old, and
\* canSendAlert is asked again: the capacity is released
C9_Witness ==
    \E u \in URLConfigs :
        /\ pc[u] = "alert" /\ ~result[u].wasFound /\ ~result[u].alreadySeen
        /\ Len(emailsSentThisHour) = EmailRateLimitPerHour
        /\ emailsSentThisHour[1] < now - OneHour
        /\ CooldownOver(u) /\ HourlyFree

\* C10: within one run canSendAlert answers no while the URL's last recorded
\* alert is younger than the cooldown, so a found notification is dispatched
\* no sooner than the cooldown after the URL's previous one
C10_CooldownRespected ==
    [][\A u \in URLConfigs :
        /\ (pc[u] = "alert" /\ pc'[u] = "send" /\ ~CooldownOver(u))
              => result'[u].Gate = "cooldown"
        /\ Dispatches(u) =>
              \A i \in DOMAIN delivered :
                  (delivered[i].URL = u /\ delivered[i].Type = "found")
                      => now - delivered[i].At >= AlertCooldownMinutes
        \* the `recorded` alert is the one of recordAlert, kept for the run
        /\ (pc[u] = "record" /\ pc'[u] = "match") =>
              lastAlertTime'[AlertKey(u, "found")] = now
        /\ run' = run =>
              \A k \in DOMAIN lastAlertTime :
                  k \in DOMAIN lastAlertTime' /\ lastAlertTime'[k] >= lastAlertTime[k]
      ]_vars

\* C10 witness: a new match right after the URL's last alert: canSendAlert has
\* answered no because of the cooldown
C10_Witness ==
    \E u \in URLConfigs :
        /\ pc[u] = "send" /\ result[u].Gate = "cooldown"
        /\ \E i \in DOMAIN delivered : delivered[i].URL = u

\* C11: when the saved state holds an alert of a URL recorded less than the
\* cooldown ago, canSendAlert for that URL answers no, also after a restart
C11_CooldownSurvivesRestart ==
    [][\A u \in URLConfigs :
        (/\ pc[u] = "alert" /\ pc'[u] = "send"
         /\ stateFile.exists /\ u \in DOMAIN stateFile.emails
         /\ \E i \in DOMAIN stateFile.emails[u] :
                now - stateFile.emails[u][i] < AlertCooldownMinutes)
        => result'[u].Gate # "allowed"
      ]_vars

\* C12: a call of canSendAlert changes no later answer: for every URL, what
\* canSendAlert would answer after the call is what it would have answered
\* before it, although the call stores the pruned lists; and the answer just
\* given is the one a second call at once would give
C12_CanSendAlertIsQuery ==
    [][\A u \in URLConfigs :
        (pc[u] = "alert" /\ pc'[u] = "send") =>
            /\ \A v \in URLConfigs : GateOpen(v)' = GateOpen(v)
            /\ (result'[u].Gate = "allowed") = GateOpen(u)'
      ]_vars

\* C12 witness: a call has just pruned the hourly list of every timestamp
\* recorded before (and answered yes)
C12_Witness ==
    \E u \in URLConfigs :
        /\ pc[u] = "send" /\ result[u].Gate = "allowed"
        /\ emailsSentThisHour = <<>>
        /\ DOMAIN lastAlertTime # {}

\* RecordMatch stamps the record with the current time; and within a run
\* every step keeps a record that is at most maxAge old (for the maxAge
\* given), never moving its time back, so that IsMatchSeen still says yes
SeenFor(maxAges) ==
    \A u \in URLConfigs :
        /\ (pc[u] = "match" /\ pc'[u] = "idle" /\ run' = run) =>
              /\ HashOf(u) \in DOMAIN SeenMatches'
              /\ SeenMatches'[HashOf(u)].LastNotified = now
        /\ run' = run =>
              \A h \in DOMAIN SeenMatches : \A maxAge \in maxAges :
                  now' - SeenMatches[h].LastNotified <= maxAge =>
                      /\ IsMatchSeen(SeenMatches', h, maxAge, now')
                      /\ SeenMatches'[h].LastNotified >= SeenMatches[h].LastNotified

\* C13 (as stated): for every maxAge, here also one beyond the 7 days of
\* the retention cleanup, IsMatchSeen is true until maxAge has elapsed since
\* the last RecordMatch
C13_SeenForAnyMaxAge == [][SeenFor(0..(SevenDays + 1))]_vars

\* C13 (amended): for every maxAge of at most 7 days, within one run,
\* IsMatchSeen is true until maxAge has elapsed since the last RecordMatch,
\* whatever saves and cleanups run in between
C13_SeenWithinRetention == [][SeenFor(0..SevenDays)]_vars

\* C13 witness: the cleanup of a save runs while a record is exactly 7 days old
C13_Witness ==
    /\ saver.active /\ saver.at = now
    /\ \E h \in DOMAIN SeenMatches : now - SeenMatches[h].LastNotified = SevenDays

LoadsFresh(alwaysRenamed) ==
    run' # run =>
        /\ ~stateFile.exists \/ stateFile.corrupt =>
              /\ emailsSentPerURLToday' = EmptyMap
              /\ errorEmailsSentPerURLToday' = EmptyMap
              /\ SeenMatches' = EmptyMap
        /\ ~stateFile.exists => ~stateFile'.exists
        /\ stateFile.exists /\ stateFile.corrupt =>
              \/ ~stateFile'.exists /\ corruptedFiles' = corruptedFiles \cup {now}
              \/ ~alwaysRenamed /\ stateFile' = stateFile /\ corruptedFiles' = corruptedFiles

\* a save that gets to put its document at the state path puts a valid one
\* there, whatever it found
SaveWritesValid ==
    (saver.active /\ ~saver'.active /\ run' = run /\ stateFile' # stateFile) =>
        stateFile'.exists /\ ~stateFile'.corrupt

C16_FileAlwaysComplete ==
    /\ [](stateFile.exists => ~stateFile.corrupt)
    /\ [][stateFile' # stateFile =>
            /\ saver.active /\ saver.written /\ ~saver'.active /\ run' = run
            /\ tempFile.exists /\ ~tempFile.corrupt
            /\ stateFile' = tempFile
         ]_vars

\* C16 witness: the process died after a save that failed while writing: the
\* truncated temp file is still there, next to the previous complete document
C16_Witness ==
    /\ run > 0
    /\ tempFile.exists /\ tempFile.corrupt
    /\ stateFile.exists /\ ~stateFile.corrupt /\ stateFile.seen # EmptyMap
    /\ stateFile.seen # tempFile.seen

\* the poll of u is past its error / recovery e-mail part
PastConnection(u) == pc[u] \notin {"errGate", "errSend", "errRecord"}
SentTypes(u) == [i \in DOMAIN outage[u].Sent |-> outage[u].Sent[i].Type]

\* C17: an outage that began with room for two e-mails under the daily cap
\* has had exactly one error e-mail handed to the Notifier, at its first
\* failed poll, however many failed polls follow; once a poll has succeeded
\* exactly one recovery e-mail has followed it, and the downtime it reports
\* is the time of that poll less the time of the first failed poll
C17_OneErrorOneRecovery ==
    \A u \in URLConfigs :
        LET o == outage[u] IN
        (o.Polls > 0 /\ o.Used + 2 <= MaxErrorEmailsPerDay /\ PastConnection(u)) =>
            IF ~o.Over
            THEN SentTypes(u) = <<"error">>
            ELSE /\ SentTypes(u) = <<"error", "recovery">>
                 /\ o.Sent[2].Downtime = o.Up - o.Since

\* C17 witness: several failed polls, then a successful one two ticks after
\* the first failure, both e-mails accepted by the Notifier
C17_Witness ==
    LET o == outage["u1"] IN
    /\ pc["u1"] = "idle"
    /\ o.Polls = 2 /\ o.Over /\ o.Used = 0 /\ o.Up - o.Since = 2
    /\ Len(o.Sent) = 2 /\ o.Sent[1].Accepted /\ o.Sent[2].Accepted
    /\ o.Sent[2].Downtime = 2

\* C18: when the Notifier took an error e-mail for an outage and a poll has
\* then succeeded, a recovery e-mail was handed to the Notifier in that poll
C18_RecoveryFollowsError ==
    \A u \in URLConfigs :
        LET o == outage[u] IN
        (/\ o.Over /\ PastConnection(u)
         /\ \E i \in DOMAIN o.Sent : o.Sent[i].Type = "error" /\ o.Sent[i].Accepted)
        => \E j \in DOMAIN o.Sent : o.Sent[j].Type = "recovery"

C20_PanicContained ==
    [][\A u, v \in URLConfigs :
        (u # v /\ pc[u] \notin {"idle", "exited"} /\ pc'[u] = "exited") =>
            pc'[v] = pc[v] /\ pc'[v] # "exited"
      ]_vars

C22_StopTerminates ==
    /\ stopChan ~> (/\ \A i \in Loops : loop[i].at = "returned"
                    /\ maintenance = "returned"
                    /\ start = "returned")
    /\ [][\A i \in Loops :
            /\ (loop[i].at = "stagger" /\ loop'[i].at = "returned") => ~loop'[i].polled
            /\ loop[i].at = "returned" => loop'[i] = loop[i]
         ]_vars

\* C22 witness: after the stop, Start has returned with one loop stopped in
\* its initial delay and another stopped between two polls
C22_Witness ==
    /\ stopChan /\ start = "returned" /\ maintenance = "returned"
    /\ \E i, j \in Loops : ~loop[i].polled /\ loop[j].polled

\* the file holds every timestamp of `times` and every MatchRecord of `seen`
\* that is within its retention at time t
FileContains(file, emails, errors, seen, t) ==
    /\ \A u \in DOMAIN emails : \A i \in DOMAIN emails[u] :
          emails[u][i] > t - OneDay =>
              /\ u \in DOMAIN file.emails
              /\ \E j \in DOMAIN file.emails[u] : file.emails[u][j] = emails[u][i]
    /\ \A u \in DOMAIN errors : \A i \in DOMAIN errors[u] :
          errors[u][i] > t - OneDay =>
              /\ u \in DOMAIN file.errors
              /\ \E j \in DOMAIN file.errors[u] : file.errors[u][j] = errors[u][i]
    /\ \A h \in DOMAIN seen :
          t - seen[h].LastNotified <= SevenDays =>
              /\ h \in DOMAIN file.seen
              /\ file.seen[h].LastNotified >= seen[h].LastNotified

NextEvent(g, kind) ==
    locks[g].todo # <<>> /\ Head(locks[g].todo)[1] = kind

\* the locks the goroutine holds
HeldLocks(g) == {e[2] : e \in locks[g].held}

\* C24: every read and write of a persisted field of the ServiceState is made
\* under ServiceState.mu, and no two goroutines are at the same shared map at
\* the same time (which locks of different names allow).
C24_StoreLockGuards ==
    /\ \A g \in Goroutines :
          (NextEvent(g, "touch") /\ Head(locks[g].todo)[2] \in PersistedFields)
              => "state.mu" \in HeldLocks(g)
    /\ \A g, h \in Goroutines :
          (g # h /\ NextEvent(g, "touch") /\ NextEvent(h, "touch")
             /\ Head(locks[g].todo)[2] = Head(locks[h].todo)[2])
              => \E mu \in HeldLocks(g) \cap HeldLocks(h) : Writers(mu) = {}

\* C25: no goroutine holds locks of two different shared structures at the
\* same time, and the goroutines never all wait for each other: while any call
\* is unfinished, some goroutine can make its next event.
C25_OneStructureAtATime ==
    /\ \A g \in Goroutines : Cardinality({Structure(mu) : mu \in HeldLocks(g)}) <= 1
    /\ (\E g \in Goroutines : locks[g].todo # <<>>)
          => \E g \in Goroutines : locks[g].todo # <<>> /\ ~Blocked(g)

\* a goroutine holds the cache's lock and an entry's lock while another waits
\* for a lock
C25_Witness ==
    \E g, h \in Goroutines :
        /\ HeldLocks(g) = {"dnsCache.mu", "entry.mu"}
        /\ Blocked(h)

\* C26: a target loop that waits for the network (DNS lookup, fetch,
\* notification send) holds no lock, so no other goroutine waits for a lock
\* of the loop that is in the network call.
C26_NoLockDuringNetwork ==
    \A g \in TargetLoops :
        NextEvent(g, "net") =>
            /\ locks[g].held = {}
            /\ \A h \in Goroutines \ {g} :
                  Blocked(h) => Head(locks[h].todo)[2] \notin HeldLocks(g)

\* one loop is in its fetch while the other loop is inside a locked section
C26_Witness ==
    \E g, h \in TargetLoops :
        /\ g # h
        /\ NextEvent(g, "net") /\ Head(locks[g].todo)[2] = "client.Do"
        /\ "m.mu" \in HeldLocks(h)

\* the last n elements of a sequence
LastN(s, n) == IF Len(s) <= n THEN s ELSE SubSeq(s, Len(s) - n + 1, Len(s))

Min(a, b) == IF a < b THEN a ELSE b

\* C27: after n Adds to a CircularBuffer of capacity c >= 1, GetAll returns
\* exactly the last min(n, c) added items, oldest first; it never returns
\* more than c items; an Add to a full buffer drops exactly the oldest item
\* and appends the new one.
C27_LastItemsInOrder ==
    /\ [](LET all == CircularBuffer_GetAll(recentEvents.cb)
              c == recentEvents.cb.capacity
          IN  /\ all = LastN(recentEvents.added, Min(Len(recentEvents.added), c))
              /\ Len(all) <= c)
    /\ [][(recentEvents.cb.count = recentEvents.cb.capacity
             /\ recentEvents'.added # recentEvents.added)
           => CircularBuffer_GetAll(recentEvents'.cb)
                = Append(Tail(CircularBuffer_GetAll(recentEvents.cb)),
                         recentEvents'.added[Len(recentEvents'.added)])]_vars

\* more items were added than the buffer holds, the oldest that is kept
\* differs from the newest, and a GetAll returned them
C27_Witness ==
    /\ recentEvents.cb.capacity >= 2
    /\ Len(recentEvents.added) > recentEvents.cb.capacity + 1
    /\ recentEvents.got = CircularBuffer_GetAll(recentEvents.cb)
    /\ recentEvents.got[1] # recentEvents.got[Len(recentEvents.got)]

\* the entries the run goroutine has taken from logChan and appended
Appended ==
    SubSeq(asyncLogger.enqueued, 1,
           Len(asyncLogger.enqueued) - Len(asyncLogger.logChan)
             - (IF asyncLogger.run = "Lock" THEN 1 ELSE 0))

\* C28: AsyncLogger.Add never blocks, whether run is receiving, waits for the
\* buffer's lock or has returned: its select always has a case to take, the
\* entry is enqueued when logChan has room and dropped otherwise; the buffer
\* holds the latest appended entries in the order they were enqueued.
C28_AddNeverBlocks ==
    /\ [](AddCases(asyncLogger) # {})
    /\ [](asyncLogger.buffer = LastN(Appended, asyncLogger.maxLines))
    /\ [][asyncLogger'.calls # asyncLogger.calls =>
            IF Len(asyncLogger.logChan) < LogChanCapacity
            THEN /\ asyncLogger'.logChan = Append(asyncLogger.logChan, asyncLogger'.calls)
                 /\ asyncLogger'.dropped = asyncLogger.dropped
            ELSE /\ asyncLogger'.logChan = asyncLogger.logChan
                 /\ asyncLogger'.dropped = asyncLogger.dropped \cup {asyncLogger'.calls}]_vars

\* run has returned after it appended entries; later Adds filled logChan and
\* one more was dropped
C28_Witness ==
    /\ asyncLogger.run = "returned"
    /\ Len(asyncLogger.buffer) >= 2
    /\ Len(asyncLogger.logChan) = LogChanCapacity
    /\ asyncLogger.dropped # {}

\* a Resolve call returns in this step
ResolveReturns == dnsCache.call.at # "returned" /\ dnsCache'.call.at = "returned"

\* C29: Resolve of a literal address returns it, changed = false, the cache
\* untouched; an unexpired hit returns the cached address, changed = false,
\* without a lookup; a miss or an expired entry leads to a lookup and, when
\* it succeeds, changed = true exactly if an entry existed with another
\* address, and afterwards the cache maps the name to the new address,
\* expiring at now + ttl.
C29_ResolveContract ==
    [][ResolveReturns =>
        LET call == dnsCache'.call
            h == call.hostname
            had == h \in DOMAIN call.before
        IN  /\ ParseIP(h) =>
                 /\ call.ret = [ip |-> h, changed |-> FALSE, err |-> "nil"]
                 /\ dnsCache'.entries = call.before
                 /\ ~call.looked
            /\ (~ParseIP(h) /\ had /\ call.now < call.before[h].ExpiresAt) =>
                 /\ call.ret = [ip |-> call.before[h].ResolvedIP, changed |-> FALSE,
                                err |-> "nil"]
                 /\ ~call.looked
            /\ (~ParseIP(h) /\ ~(had /\ call.now < call.before[h].ExpiresAt)) =>
                 /\ call.looked
                 /\ (call.lookup.err = "nil" /\ call.lookup.ips # <<>>) =>
                       /\ call.ret.err = "nil"
                       /\ call.ret.ip = call.lookup.ips[1]
                       /\ call.ret.changed
                            = (had /\ call.before[h].ResolvedIP # call.ret.ip)
                       /\ h \in DOMAIN dnsCache'.entries
                       /\ dnsCache'.entries[h]
                            = [ResolvedIP |-> call.ret.ip,
                               ExpiresAt |-> call.now + DNSCacheTTL]]_vars

\* C30: when the lookup fails (an error or an empty answer) and the call
\* found an entry, Resolve returns the entry's address with the error of the
\* resolution and changed = false, and the entries stay as they are; without
\* an entry it returns the empty address and the error.
C30_FailureFallsBack ==
    [][(ResolveReturns /\ dnsCache'.call.looked
          /\ (dnsCache'.call.lookup.err # "nil" \/ dnsCache'.call.lookup.ips = <<>>))
        => LET call == dnsCache'.call
           IN  /\ call.ret.err # "nil"
               /\ ~call.ret.changed
               /\ dnsCache'.entries = dnsCache.entries
               /\ call.ret.ip = IF call.exists THEN call.entry.ResolvedIP ELSE ""]_vars

\* C31: a MatchRecord is created by the first notification of a fingerprint,
\* and every later poll that sights the fingerprint again (the URL found
\* before, or the match already seen) sets its LastNotified to now and adds
\* one to its Count.
C31_SightingRefreshes ==
    [][\A u \in URLConfigs :
          LET hash == GenerateMatchHash(u, result[u].Fields)
          IN  /\ (run' = run /\ pc[u] = "match" /\ pc'[u] = "idle"
                    /\ ~Has(SeenMatches, hash))
                    => /\ Has(SeenMatches', hash)
                       /\ SeenMatches'[hash]
                            = [FirstSeen |-> now, LastNotified |-> now, Count |-> 1]
              /\ (run' = run /\ pc[u] = "alert" /\ pc'[u] = "idle"
                    /\ Has(SeenMatches, hash))
                    => SeenMatches'[hash]
                         = [SeenMatches[hash] EXCEPT !.LastNotified = now,
                                                     !.Count = @ + 1]]_vars

\* the cleaned state: no timestamp at or before the day's cutoff, no key with
\* an empty list, no MatchRecord last notified before the week's cutoff
Cleaned(emails, errors, seen, t) ==
    /\ \A m \in {emails, errors} : \A k \in DOMAIN m :
          m[k] # <<>> /\ \A i \in DOMAIN m[k] : m[k][i] > t - OneDay
    /\ \A h \in DOMAIN seen : seen[h].LastNotified >= t - SevenDays

\* every timestamp of `old` after the day's cutoff and every MatchRecord not
\* before the week's cutoff is in the new state
Retained(oldTimes, newTimes, oldSeen, newSeen, t) ==
    /\ \A k \in DOMAIN oldTimes :
          ValidTimes(oldTimes[k], t - OneDay) = Slice(newTimes, k)
    /\ \A h \in DOMAIN oldSeen :
          oldSeen[h].LastNotified >= t - SevenDays
              => Has(newSeen, h) /\ newSeen[h] = oldSeen[h]

\* C32: right after every SaveState and every successful LoadState the state
\* holds no notification timestamp older than 24 hours, no key with an empty
\* list and no MatchRecord older than 7 days, and every younger entry that
\* was in the state (in the file) is still there.
C32_CleanedAndRetained ==
    [][/\ (saver.active /\ ~saver'.active /\ run' = run) =>
            /\ Cleaned(emailsSentPerURLToday', errorEmailsSentPerURLToday', SeenMatches', now)
            /\ Retained(emailsSentPerURLToday, emailsSentPerURLToday',
                        SeenMatches, SeenMatches', now)
            /\ Retained(errorEmailsSentPerURLToday, errorEmailsSentPerURLToday',
                        SeenMatches, SeenMatches', now)
       /\ (run' # run /\ stateFile.exists /\ ~stateFile.corrupt) =>
            /\ Cleaned(emailsSentPerURLToday', errorEmailsSentPerURLToday', SeenMatches', now)
            /\ Retained(stateFile.emails, emailsSentPerURLToday',
                        stateFile.seen, SeenMatches', now)
            /\ Retained(stateFile.errors, errorEmailsSentPerURLToday',
                        stateFile.seen, SeenMatches', now)]_vars

\* C33: an Event is added exactly when a successful poll's found flag
\* differs from the stored found-state of the URL: "found" on false->true,
\* "not_found" on true->false, none otherwise and none in any other step; so
\* the events of a URL alternate, starting with "found" (a "found" event takes
\* the URL into foundURLs, a "not_found" event out of it, and nothing else
\* changes its membership); a true->false poll starts a saveState goroutine,
\* ends the poll and sends no notification
handledPoll(u) == run' = run /\ pc[u] = "found" /\ pc'[u] # "found"

C33_EventOnTransition ==
    [][\A u \in URLConfigs :
          LET found == result[u].Found
              wasFound == u \in foundURLs
              event == emitted'.event
          IN  /\ handledPoll(u) =>
                    /\ (found /\ ~wasFound) => event = EventRecord(u, "found")
                    /\ (~found /\ wasFound) =>
                          /\ event = EventRecord(u, "not_found")
                          /\ emitted'.goSaveState
                          /\ pc'[u] = "idle"
                          /\ delivered' = delivered
                          /\ lastAlertTime' = lastAlertTime
                          /\ emailsSentThisHour' = emailsSentThisHour
                          /\ emailsSentPerURLToday' = emailsSentPerURLToday
                    /\ (found <=> wasFound) => event = NoEvent
              /\ ~handledPoll(u) => event.URL # u
              /\ event = EventRecord(u, "found") => u \notin foundURLs /\ u \in foundURLs'
              /\ event = EventRecord(u, "not_found") => u \in foundURLs /\ u \notin foundURLs'
              /\ ((u \in foundURLs) # (u \in foundURLs')) => event.URL = u]_vars

C33_Witness ==
    /\ emitted.event = EventRecord("u2", "not_found")
    /\ emitted.goSaveState
    /\ "u1" \in foundURLs

\* C34: the gate of the error and recovery notifications looks at the
\* per-URL error list only and recordErrorEmail changes that list only: the
\* answer of canSendErrorEmail is "fewer than three entries of the last 24
\* hours", whatever the cooldown map, the hourly list and the per-URL match
\* list hold, and these three are the same after every step of the error
\* path; the answer of canSendAlert is a function of those three, and no step
\* of the match path changes the error list
AlertGate(u) ==
    LET validEmails == ValidTimes(emailsSentThisHour, now - OneHour)
        validURLEmails == ValidTimes(Slice(emailsSentPerURLToday, u), now - OneDay)
    IN  IF CooldownActive(lastAlertTime, AlertKey(u, "found"), now) THEN "cooldown"
        ELSE IF GlobalLimitReached(validEmails) THEN "hourly"
        ELSE IF DailyLimitReached(validURLEmails) THEN "daily"
        ELSE "allowed"

AlertLists == <<lastAlertTime, emailsSentThisHour, emailsSentPerURLToday>>

C34_ErrorGateApart ==
    [][\A u \in URLConfigs :
          /\ (pc[u] = "errGate" /\ pc'[u] # "errGate") =>
                /\ (pc'[u] = "errSend") <=>
                      ~ErrorLimitReached(ValidTimes(Slice(errorEmailsSentPerURLToday, u),
                                                    now - OneDay))
                /\ AlertLists' = AlertLists
          /\ (pc[u] \in {"errSend", "errRecord"} /\ pc'[u] # pc[u]) => AlertLists' = AlertLists
          /\ (pc[u] = "errRecord" /\ pc'[u] # "errRecord") =>
                errorEmailsSentPerURLToday' =
                    Put(errorEmailsSentPerURLToday, u,
                        Append(Slice(errorEmailsSentPerURLToday, u), now))
          /\ (pc[u] = "alert" /\ pc'[u] = "send") =>
                /\ result'[u].Gate = AlertGate(u)
                /\ errorEmailsSentPerURLToday' = errorEmailsSentPerURLToday
          /\ (pc[u] \in {"send", "record", "match"} /\ pc'[u] # pc[u]) =>
                errorEmailsSentPerURLToday' = errorEmailsSentPerURLToday]_vars

\* the error gate lets a notification through while the match gate is closed
\* by its cooldown and by the hourly limit
C34_Witness ==
    /\ pc["u1"] = "errRecord"
    /\ CooldownActive(lastAlertTime, AlertKey("u1", "found"), now)
    /\ GlobalLimitReached(ValidTimes(emailsSentThisHour, now - OneHour))
    /\ Len(Slice(errorEmailsSentPerURLToday, "u1")) > 0

\* C35: in one continuous outage an error notification is attempted at most
\* once, and only by the first failed poll: a failed poll of a URL already
\* marked unreachable enters no gate, hands nothing to the Notifier and
\* leaves lastURLDownTime alone, also when the first poll's attempt was
\* denied by the daily cap or for want of an error recipient
ErrorAttempts(u) == {i \in DOMAIN outage[u].Sent : outage[u].Sent[i].Type = "error"}

C35_OneAttemptPerOutage ==
    /\ [](\A u \in URLConfigs : Cardinality(ErrorAttempts(u)) <= 1)
    /\ [][\A u \in URLConfigs :
             /\ (pc[u] = "idle" /\ pc'[u] = "errGate" /\ result'[u].Error) =>
                    u \notin unreachableURLs
             /\ (u \in unreachableURLs /\ u \in unreachableURLs') =>
                    /\ Has(lastURLDownTime', u)
                    /\ lastURLDownTime'[u] = lastURLDownTime[u]
             /\ (pc[u] = "idle" /\ u \in unreachableURLs /\ u \in unreachableURLs') =>
                    /\ pc'[u] = "idle"
                    /\ outage'[u].Sent = outage[u].Sent
                    /\ errorEmailsSentPerURLToday' = errorEmailsSentPerURLToday]_vars

\* several failed polls of an outage whose first poll was denied by the cap
C35_Witness ==
    /\ pc["u1"] = "idle"
    /\ "u1" \in unreachableURLs
    /\ outage["u1"].Polls = 2
    /\ outage["u1"].Used >= MaxErrorEmailsPerDay
    /\ outage["u1"].Sent = <<>>
    /\ config.ErrorRecipient # ""


\* C36: lastURLDownTime has an entry for a URL exactly when the URL is in
\* unreachableURLs; the entry is written (with the current time) in the step
\* that marks the URL unreachable, deleted in the step that clears the mark,
\* and left alone by every other step: both maps change in one m.mu section
C36_DownTimeIffUnreachable ==
    /\ [](DOMAIN lastURLDownTime = unreachableURLs)
    /\ [][\A u \in URLConfigs :
             LET was == u \in unreachableURLs
                 is == u \in unreachableURLs'
             IN  /\ (~was /\ is) => /\ Has(lastURLDownTime', u)
                                    /\ lastURLDownTime'[u] = now
                 /\ (was /\ ~is) => ~Has(lastURLDownTime', u)
                 /\ (was <=> is) => /\ Has(lastURLDownTime', u) <=> Has(lastURLDownTime, u)
                                    /\ Has(lastURLDownTime, u) =>
                                          lastURLDownTime'[u] = lastURLDownTime[u]]_vars

\* a second outage of the URL, begun later than the first and still lasting
C36_Witness ==
    /\ "u1" \in unreachableURLs
    /\ Has(lastURLDownTime, "u1")
    /\ lastURLDownTime["u1"] > 0
    /\ lastURLDownTime["u1"] < now
    /\ Len(Slice(errorEmailsSentPerURLToday, "u1")) >= 2


\* C37: a failed fetch leaves the stored found-state alone and adds no Event
\* (no step outside the found-state section of a successful poll does); a
\* successful poll with a match on a URL stored as found, also the one that
\* ends an outage, adds no "found" Event and sends no found notification
C37_FailureKeepsFoundState ==
    [][\A u \in URLConfigs :
          /\ (pc[u] # "found" /\ run' = run) =>
                /\ (u \in foundURLs') <=> (u \in foundURLs)
                /\ emitted'.event.URL # u
          /\ (pc[u] = "idle" /\ u \in unreachableURLs') =>
                /\ foundURLs' = foundURLs
                /\ emitted'.event = NoEvent
          /\ (pc[u] = "found" /\ pc'[u] = "alert" /\ u \in foundURLs) =>
                /\ emitted'.event = NoEvent
                /\ result'[u].wasFound
          /\ (pc[u] = "alert" /\ pc'[u] # "alert" /\ result[u].wasFound) =>
                /\ pc'[u] = "idle"
                /\ delivered' = delivered
                /\ AlertLists' = AlertLists
                /\ SeenMatches' = SeenMatches]_vars

\* the poll that ends an outage of several failed polls finds the match on
\* a URL that was found before the outage
C37_Witness ==
    /\ pc["u1"] = "alert"
    /\ result["u1"].wasFound
    /\ outage["u1"].Polls = 2
    /\ outage["u1"].Over
    /\ outage["u1"].Up = now
    /\ emitted.event = NoEvent


\* C38: a poll that finds a match stores the URL as found whatever becomes of
\* the notification; when the notification is suppressed as already seen,
\* denied by the gate or not accepted by the Notifier, no entry is added to
\* the gate lists and the seen-match records stay as they are; a later poll of
\* a URL stored as found dispatches nothing
NoAlertRecorded ==
    /\ lastAlertTime' = lastAlertTime
    /\ ValidTimes(emailsSentThisHour', now - OneHour) = ValidTimes(emailsSentThisHour, now - OneHour)
    /\ \A u \in URLConfigs :
          ValidTimes(Slice(emailsSentPerURLToday', u), now - OneDay)
              = ValidTimes(Slice(emailsSentPerURLToday, u), now - OneDay)
    /\ SeenMatches' = SeenMatches

C38_Suppressed(u) ==
    /\ (pc[u] = "found" /\ pc'[u] # "found" /\ run' = run /\ result[u].Found) => u \in foundURLs'
    /\ (pc[u] = "alert" /\ pc'[u] # "alert" /\ (result[u].wasFound \/ result[u].alreadySeen)) =>
          /\ pc'[u] = "idle"
          /\ delivered' = delivered
          /\ NoAlertRecorded
    /\ (pc[u] = "alert" /\ pc'[u] = "send" /\ result'[u].Gate # "allowed") => NoAlertRecorded
    /\ (pc[u] = "send" /\ pc'[u] # "send" /\ result[u].Gate # "allowed") =>
          /\ pc'[u] = "idle"
          /\ delivered' = delivered
          /\ NoAlertRecorded

C38_FailedSend(u) ==
    (pc[u] \in {"send", "record", "match"} /\ pc'[u] # pc[u] /\ run' = run
        /\ result[u].Gate = "allowed" /\ ~result'[u].Accepted /\ pc'[u] # "idle") => NoAlertRecorded

C38_NoTraceWithoutDispatch ==
    [][\A u \in URLConfigs : C38_Suppressed(u) /\ C38_FailedSend(u)]_vars


\* C39: for every target at most one call of checkSingleURL is in flight at
\* any time: a tick that arrives while the poll of the previous tick runs
\* waits in the ticker's channel and starts no poll before that poll returns
C39_OnePollInFlight ==
    /\ [](\A i \in Loops : loop[i].polls <= 1 /\ (loop[i].polls = 1 <=> loop[i].at = "checkSingleURL"))
    /\ [][\A i \in Loops :
             (loop[i].at = "checkSingleURL" /\ loop'[i].ticks > loop[i].ticks) =>
                 /\ loop'[i].at = "checkSingleURL"
                 /\ loop'[i].polls = loop[i].polls]_vars

\* a tick has arrived during a poll, while another target's loop polls too
C39_Witness ==
    /\ loop[0].at = "checkSingleURL"
    /\ loop[0].ticks = 1
    /\ loop[0].polls = 1
    /\ loop[1].polls = 1


\* C40: however Resolve and CleanupExpired interleave, when a Resolve returns
\* from a successful lookup the cache holds an entry for the name with the
\* resolved address, expiring at now + ttl; and the sweep removes no entry
\* that has not expired
C40_RefreshSurvivesSweep ==
    [][/\ (ResolveReturns /\ dnsCache'.call.looked /\ dnsCache'.call.ret.err = "nil"
              /\ dnsCache'.call.lookup.err = "nil" /\ dnsCache'.call.lookup.ips # <<>>) =>
             LET call == dnsCache'.call
                 h == call.hostname
             IN  /\ h \in DOMAIN dnsCache'.entries
                 /\ dnsCache'.entries[h].ResolvedIP = call.ret.ip
                 /\ dnsCache'.entries[h].ExpiresAt = call.now + DNSCacheTTL
       /\ \A name \in DOMAIN dnsCache.entries :
             (name \notin DOMAIN dnsCache'.entries) =>
                 dnsCache.clock > dnsCache.entries[name].ExpiresAt]_vars

====
